---- MODULE Spec2Model ----
(***************************************************************************)
(* Zara stock tracker: the polling cycle (StockService.update_all_products *)
(* over the stock rows of the tracked products), the TTL response cache    *)
(* (TTLCache) alone and under several threads, and the scraper call        *)
(* (get_stock_status) with its fetch-and-retry loop.                       *)
(***************************************************************************)
EXTENDS Integers, Sequences, FiniteSets, TLC

(* ------------------------------ bounds --------------------------------- *)
MaxProducts == 3
MaxCycles == 2
MaxSizes == 2
MaxRows == 2
MaxTime == 3
MaxTtl == 2
MaxMedia == 2
MaxUrl == 5
MaxColors == 3
MaxChecks == 2

(* ------------------------------ values --------------------------------- *)
\* desired_size of a product added without one (Column desired_size is NULL)
NoSize == "None"

\* str.upper() on the labels of the model
Upper(s) ==
  CASE s = "m" -> "M"
    [] s = "s" -> "S"
    [] OTHER -> s

\* availability == "in_stock"
StockAvailableOnlyInStock(availability) == availability = "in_stock"

\* availability in ["in_stock", "low_on_stock", "back_soon"]
StockAvailable(availability) ==
  availability \in {"in_stock", "low_on_stock", "back_soon"}

\* SizeStock(size, in_stock, stock_status) as the parser builds it
SizeStock(size, availability) ==
  [size |-> size, in_stock |-> StockAvailable(availability),
   stock_status |-> availability]

\* a ZaraStockStatus row
ZaraStockStatus(size, in_stock, stock_status, last_updated) ==
  [size |-> size, in_stock |-> in_stock, stock_status |-> stock_status,
   last_updated |-> last_updated]

\* ProductInfo: what get_stock_status hands to the caller (kind "ok"), or None
\* (kind "none"), or an exception leaving the scraper call (kind "raises")
ProductInfo(sizes, price, old_price, discount) ==
  [kind |-> "ok", sizes |-> sizes, price |-> price, old_price |-> old_price,
   discount |-> discount]

NoResult == [kind |-> "none", sizes |-> <<>>, price |-> 0, old_price |-> 0,
             discount |-> ""]

ScrapeError == [kind |-> "raises", sizes |-> <<>>, price |-> 0, old_price |-> 0,
                discount |-> ""]

ProductName(p) == <<"name", p>>

\* ZaraProduct as add_product stores it (the fields the cycle reads or writes)
ZaraProduct(p, desired_size) ==
  [product_name |-> ProductName(p), desired_size |-> desired_size,
   price |-> 10, old_price |-> 0, discount |-> "", last_check |-> 0]

SeqsUpTo(S, n) == UNION {[1..k -> S] : k \in 0..n}

(* ------------------------------- state --------------------------------- *)
VARIABLES
  db,           \* committed rows: [prod: id -> ZaraProduct, stock: id -> rows]
  sess,         \* the rows as the open session sees them (flushed, uncommitted)
  site,         \* what the scraper yields for each product
  pc,           \* "idle" | "scrape" | "sizes"
  cycle,        \* number of update_all_products calls started (datetime.now())
  i,            \* index of the product in the for loop
  j,            \* index of the size in the inner for loop
  result,       \* scraper.get_stock_status(product.url)
  updated, changes, size_alerts,
  rets,         \* the triples returned so far, oldest first
  prior,        \* the rows as they were when the running call began
  fault,        \* per product: the pass of the size loop that raises, 0 = none
  cache,        \* TTLCache._cache: key -> CacheEntry
  default_ttl,  \* TTLCache._default_ttl
  now,          \* datetime.now()
  op,           \* the last cache operation, its arguments and what it returned
  lastSet,      \* key -> the entry of its last set, until delete or clear
  lock,         \* TTLCache._lock: the thread inside "with self._lock", or "free"
  th,           \* per thread: the cache call it is executing and its locals
  scr,          \* per thread: the scraper call it is executing and its locals
  prs,          \* the parser call: the payload it is given and what it returns
  ids,          \* the id extraction: the URL it is given and what it returns
  ntf,          \* the send_notification call: its inputs, position and result
  gs,           \* a get_stock_status call with its cache lookup and its parse
  mb,           \* the menu bar app: its database and its checking threads
  ap            \* an add_product call: its sessions, its position, its result

upVars == <<db, sess, site, pc, cycle, i, j, result, updated, changes,
            size_alerts, rets, prior, fault>>
cacheVars == <<cache, default_ttl, now, op, lastSet>>
appVars == <<gs, mb, ap>>
pureVars == <<prs, ids, ntf, appVars>>
extVars == <<lock, th, scr, pureVars>>
vars == <<upVars, cacheVars, extVars>>

Products == DOMAIN db.prod

(* ----------------- StockService.update_all_products -------------------- *)

\* StockRepository.get_by_product_and_size: the position of the first row of
\* the product whose size column equals the label (SQL =, exact), 0 for None.
\* The query flushes the session first, so rows added earlier in the same call
\* are found as well.
get_by_product_and_size(rows, size) ==
  IF \E k \in 1..Len(rows) : rows[k].size = size
  THEN CHOOSE k \in 1..Len(rows) :
         /\ rows[k].size = size
         /\ \A m \in 1..(k - 1) : rows[m].size # size
  ELSE 0

\* new_stock = 1 if size_info.in_stock else 0
NewStock(size_info) == IF size_info.in_stock THEN 1 ELSE 0

\* mutant: only a change towards in stock counts
StockChangedToInStock(current_stock, new_stock) ==
  current_stock.in_stock = 0 /\ new_stock = 1

\* current_stock.in_stock != new_stock
StockChanged(current_stock, new_stock) == current_stock.in_stock # new_stock

\* mutant: the label is compared with the desired size without upper()
DesiredSizeCameInStockExact(new_stock, desired_size, size) ==
  /\ new_stock = 1
  /\ desired_size # NoSize
  /\ size = desired_size

\* new_stock == 1 and product.desired_size and
\* size_info.size.upper() == product.desired_size.upper()
DesiredSizeCameInStock(new_stock, desired_size, size) ==
  /\ new_stock = 1
  /\ desired_size # NoSize
  /\ Upper(size) = Upper(desired_size)

\* the dict appended to size_alerts
SizeAlert(p, product, size_info, res) ==
  [product_id |-> p, product_name |-> product.product_name,
   size |-> size_info.size, price |-> res.price]

\* session = get_session(); products = get_all_active(session);
\* if not products: return 0, 0, []
Begin ==
  /\ pc = "idle"
  /\ cycle < MaxCycles
  /\ cycle' = cycle + 1
  /\ sess' = db
  /\ prior' = db
  /\ updated' = 0
  /\ changes' = 0
  /\ size_alerts' = <<>>
  /\ result' = NoResult
  /\ j' = 0
  /\ IF Products = {}
       THEN /\ rets' = Append(rets, [updated |-> 0, changes |-> 0,
                                     alerts |-> <<>>])
            /\ UNCHANGED <<pc, i>>
       ELSE /\ pc' = "scrape"
            /\ i' = 1
            /\ UNCHANGED rets
  /\ UNCHANGED <<db, site, fault, cacheVars, extVars>>

\* mutant: no try/except around the product, the exception leaves the call
ScrapeRaisesAborts ==
  /\ pc = "scrape"
  /\ i \in Products
  /\ site[i].kind = "raises"
  /\ pc' = "idle"
  /\ UNCHANGED <<db, sess, site, cycle, i, j, result, updated, changes,
                 size_alerts, rets, prior, fault, cacheVars, extVars>>

\* the scraper call raises: except Exception: logger.error(...), next product
ScrapeRaises ==
  /\ pc = "scrape"
  /\ i \in Products
  /\ site[i].kind = "raises"
  /\ i' = i + 1
  /\ UNCHANGED <<db, sess, site, pc, cycle, j, result, updated, changes,
                 size_alerts, rets, prior, fault, cacheVars, extVars>>

\* mutant: a product without a snapshot is stamped as checked and counted
ScrapeNoneCounted ==
  /\ pc = "scrape"
  /\ i \in Products
  /\ site[i].kind = "none"
  /\ sess' = [sess EXCEPT !.prod[i].last_check = cycle]
  /\ updated' = updated + 1
  /\ i' = i + 1
  /\ UNCHANGED <<db, site, pc, cycle, j, result, changes, size_alerts, rets,
                 prior, fault, cacheVars, extVars>>

\* if not result: continue
ScrapeNone ==
  /\ pc = "scrape"
  /\ i \in Products
  /\ site[i].kind = "none"
  /\ i' = i + 1
  /\ UNCHANGED <<db, sess, site, pc, cycle, j, result, updated, changes,
                 size_alerts, rets, prior, fault, cacheVars, extVars>>

\* result = scraper.get_stock_status(product.url) is a ProductInfo
ScrapeOk ==
  /\ pc = "scrape"
  /\ i \in Products
  /\ site[i].kind = "ok"
  /\ result' = site[i]
  /\ j' = 1
  /\ pc' = "sizes"
  /\ UNCHANGED <<db, sess, site, cycle, i, updated, changes, size_alerts,
                 rets, prior, fault, cacheVars, extVars>>

\* mutant: a size without a row counts as a change when it is in stock
ChangesAfterCountsNew(n, rows, k, new_stock) ==
  IF k # 0
    THEN (IF StockChanged(rows[k], new_stock) THEN n + 1 ELSE n)
    ELSE (IF new_stock = 1 THEN n + 1 ELSE n)

\* changes after one pass: if current_stock: if current_stock.in_stock !=
\* new_stock: changes += 1
ChangesAfter(n, rows, k, new_stock) ==
  IF k # 0 /\ StockChanged(rows[k], new_stock) THEN n + 1 ELSE n

\* size_alerts after one pass: appended to only inside the two ifs above
AlertsAfter(alerts, rows, k, new_stock, p, product, size_info, res) ==
  IF /\ k # 0
     /\ StockChanged(rows[k], new_stock)
     /\ DesiredSizeCameInStock(new_stock, product.desired_size, size_info.size)
    THEN Append(alerts, SizeAlert(p, product, size_info, res))
    ELSE alerts

\* mutant: the row found is left as it was read
RowsAfterKeepsFound(rows, k, new_stock, size_info, t) ==
  IF k # 0
    THEN rows
    ELSE Append(rows, ZaraStockStatus(size_info.size, new_stock,
                                      size_info.stock_status, t))

\* the rows of the product after one pass: the row found is overwritten
\* (in_stock, stock_status, last_updated), else a new row is added
RowsAfter(rows, k, new_stock, size_info, t) ==
  IF k # 0
    THEN [rows EXCEPT ![k] = ZaraStockStatus(rows[k].size, new_stock,
                                             size_info.stock_status, t)]
    ELSE Append(rows, ZaraStockStatus(size_info.size, new_stock,
                                      size_info.stock_status, t))

\* one pass of: for size_info in result.sizes
ProcessSize ==
  /\ pc = "sizes"
  /\ j \in 1..Len(result.sizes)
  /\ j # fault[i]
  /\ LET product == sess.prod[i]
         size_info == result.sizes[j]
         rows == sess.stock[i]
         k == get_by_product_and_size(rows, size_info.size)
         new_stock == NewStock(size_info)
     IN /\ changes' = ChangesAfter(changes, rows, k, new_stock)
        /\ size_alerts' = AlertsAfter(size_alerts, rows, k, new_stock, i,
                                      product, size_info, result)
        /\ sess' = [sess EXCEPT !.stock[i] =
                      RowsAfter(rows, k, new_stock, size_info, cycle)]
  /\ j' = j + 1
  /\ UNCHANGED <<db, site, pc, cycle, i, result, updated, rets, prior,
                 fault, cacheVars, extVars>>

\* an exception inside the size loop (the lookup of a size raises): the
\* except clause logs it and the for loop goes on with the next product
SizeLoopRaises ==
  /\ pc = "sizes"
  /\ j \in 1..Len(result.sizes)
  /\ j = fault[i]
  /\ i' = i + 1
  /\ pc' = "scrape"
  /\ result' = NoResult
  /\ j' = 0
  /\ UNCHANGED <<db, sess, site, cycle, updated, changes, size_alerts, rets,
                 prior, fault, cacheVars, extVars>>

\* product.last_check = now; product.price = result.price; ...; updated += 1
FinishProduct ==
  /\ pc = "sizes"
  /\ j > Len(result.sizes)
  /\ sess' = [sess EXCEPT !.prod[i] =
               [@ EXCEPT !.last_check = cycle, !.price = result.price,
                         !.old_price = result.old_price,
                         !.discount = result.discount]]
  /\ updated' = updated + 1
  /\ i' = i + 1
  /\ pc' = "scrape"
  /\ result' = NoResult
  /\ j' = 0
  /\ UNCHANGED <<db, site, cycle, changes, size_alerts, rets, prior,
                 fault, cacheVars, extVars>>

\* session.commit(); return updated, changes, size_alerts
Commit ==
  /\ pc = "scrape"
  /\ i \notin Products
  /\ db' = sess
  /\ rets' = Append(rets, [updated |-> updated, changes |-> changes,
                           alerts |-> size_alerts])
  /\ pc' = "idle"
  /\ UNCHANGED <<sess, site, cycle, i, j, result, updated, changes,
                 size_alerts, prior, fault, cacheVars, extVars>>

(* ------------------------------ TTLCache ------------------------------- *)
\* api_cache = TTLCache(default_ttl_seconds=300)
DefaultTtl == 300

Keys == {"k1", "k2"}
Values == {"v1", "v2"}

\* the ttl_seconds argument of set: None, or a number of seconds
NoTtl == [given |-> FALSE, seconds |-> 0]
Ttl(n) == [given |-> TRUE, seconds |-> n]

NoEntries == [k \in {} |-> 0]

NoOp == [name |-> "new", key |-> "", ttl |-> NoTtl, ret |-> "None"]

\* CacheEntry(value, expires_at)
CacheEntry(value, expires_at) == [value |-> value, expires_at |-> expires_at]

\* mutant: an entry counts as expired only after its expiry time
is_expired_late(entry) == now > entry.expires_at

\* CacheEntry.is_expired: datetime.now() >= self.expires_at
is_expired(entry) == now >= entry.expires_at

\* del self._cache[key]
Without(c, key) == [k \in DOMAIN c \ {key} |-> c[k]]

\* self._cache[key] = entry
With(c, key, entry) ==
  [k \in DOMAIN c \cup {key} |-> IF k = key THEN entry ELSE c[k]]

\* TTLCache.get
get(key) ==
  /\ IF key \notin DOMAIN cache
       THEN /\ op' = [name |-> "get", key |-> key, ttl |-> NoTtl,
                      ret |-> "None"]
            /\ UNCHANGED cache
       ELSE IF is_expired(cache[key])
         THEN /\ cache' = Without(cache, key)
              /\ op' = [name |-> "get", key |-> key, ttl |-> NoTtl,
                        ret |-> "None"]
         ELSE /\ op' = [name |-> "get", key |-> key, ttl |-> NoTtl,
                        ret |-> cache[key].value]
              /\ UNCHANGED cache
  /\ UNCHANGED <<default_ttl, now, lastSet, upVars, extVars>>

\* ttl = timedelta(seconds=ttl_seconds) if ttl_seconds else self._default_ttl
EffectiveTtl(ttl) ==
  IF ttl.given /\ ttl.seconds # 0 THEN ttl.seconds ELSE default_ttl

\* mutant: set keeps the entry of a key that is already stored
set_keeps_existing(key, value, ttl) ==
  /\ cache' = IF key \in DOMAIN cache THEN cache
              ELSE With(cache, key, CacheEntry(value, now + EffectiveTtl(ttl)))
  /\ lastSet' = With(lastSet, key, CacheEntry(value, now + EffectiveTtl(ttl)))
  /\ op' = [name |-> "set", key |-> key, ttl |-> ttl, ret |-> "None"]
  /\ UNCHANGED <<default_ttl, now, upVars, extVars>>

\* TTLCache.set
set(key, value, ttl) ==
  /\ cache' = With(cache, key, CacheEntry(value, now + EffectiveTtl(ttl)))
  /\ lastSet' = With(lastSet, key, CacheEntry(value, now + EffectiveTtl(ttl)))
  /\ op' = [name |-> "set", key |-> key, ttl |-> ttl, ret |-> "None"]
  /\ UNCHANGED <<default_ttl, now, upVars, extVars>>

\* TTLCache.delete
delete(key) ==
  /\ cache' = Without(cache, key)
  /\ lastSet' = Without(lastSet, key)
  /\ op' = [name |-> "delete", key |-> key, ttl |-> NoTtl,
            ret |-> (key \in DOMAIN cache)]
  /\ UNCHANGED <<default_ttl, now, upVars, extVars>>

\* TTLCache.clear
clear ==
  /\ cache' = NoEntries
  /\ lastSet' = NoEntries
  /\ op' = [name |-> "clear", key |-> "", ttl |-> NoTtl, ret |-> "None"]
  /\ UNCHANGED <<default_ttl, now, upVars, extVars>>

\* mutant: the sweep also removes the entries that expire one second later
cleanup_expired_early ==
  LET expired_keys == {k \in DOMAIN cache : now + 1 >= cache[k].expires_at}
  IN /\ cache' = [k \in DOMAIN cache \ expired_keys |-> cache[k]]
     /\ op' = [name |-> "cleanup_expired", key |-> "", ttl |-> NoTtl,
               ret |-> Cardinality(expired_keys)]
     /\ UNCHANGED <<default_ttl, now, lastSet, upVars, extVars>>

\* TTLCache.cleanup_expired
cleanup_expired ==
  LET expired_keys == {k \in DOMAIN cache : is_expired(cache[k])}
  IN /\ cache' = [k \in DOMAIN cache \ expired_keys |-> cache[k]]
     /\ op' = [name |-> "cleanup_expired", key |-> "", ttl |-> NoTtl,
               ret |-> Cardinality(expired_keys)]
     /\ UNCHANGED <<default_ttl, now, lastSet, upVars, extVars>>

\* TTLCache.__len__
CacheLen == Cardinality({k \in DOMAIN cache : ~is_expired(cache[k])})

\* a second passes
Tick ==
  /\ now < MaxTime
  /\ now' = now + 1
  /\ op' = [name |-> "tick", key |-> "", ttl |-> NoTtl, ret |-> "None"]
  /\ UNCHANGED <<cache, default_ttl, lastSet, upVars, extVars>>

(* ------------------- TTLCache under several threads -------------------- *)
Threads == {"t1", "t2"}

\* a thread that is in no cache call
NoCall == [pc |-> "idle", name |-> "", key |-> "", value |-> "", ttl |-> NoTtl,
           entry |-> CacheEntry("", 0), keys |-> {}, seen |-> NoEntries,
           at |-> 0, ret |-> "None"]

\* the calls a thread can make on the cache
Calls ==
  {[name |-> "get", key |-> k, value |-> "", ttl |-> NoTtl] : k \in Keys}
  \cup {[name |-> "set", key |-> k, value |-> v, ttl |-> l] :
          k \in Keys, v \in Values, l \in {NoTtl, Ttl(1)}}
  \cup {[name |-> "delete", key |-> k, value |-> "", ttl |-> NoTtl] :
          k \in Keys}
  \cup {[name |-> n, key |-> "", value |-> "", ttl |-> NoTtl] :
          n \in {"clear", "cleanup_expired"}}

\* mutant: the lock lets a thread in while another thread holds it
acquire_unguarded(t) == lock' = t

\* with self._lock: the thread waits until no thread holds the lock
acquire(t) == lock = "free" /\ lock' = t

\* a thread enters the "with self._lock" block of a cache method
EnterCall(t, c) ==
  /\ th[t].pc = "idle"
  /\ acquire(t)
  /\ th' = [th EXCEPT ![t] = [NoCall EXCEPT !.pc = "locked", !.name = c.name,
                                !.key = c.key, !.value = c.value,
                                !.ttl = c.ttl]]
  /\ UNCHANGED <<cacheVars, upVars, pureVars>>

\* a thread calls a cache method directly
Enter(t, c) ==
  /\ scr[t].pc = "idle"
  /\ EnterCall(t, c)
  /\ UNCHANGED scr

\* get: entry = self._cache.get(key); if entry is None: return None
get_lookup(t) ==
  /\ th[t].pc = "locked" /\ th[t].name = "get"
  /\ th' = [th EXCEPT ![t] =
              IF th[t].key \in DOMAIN cache
                THEN [@ EXCEPT !.pc = "found", !.entry = cache[th[t].key],
                               !.seen = cache]
                ELSE [@ EXCEPT !.pc = "unlock", !.ret = "None"]]
  /\ UNCHANGED <<cacheVars, upVars, pureVars, lock, scr>>

\* get: if entry.is_expired: del self._cache[key]; return None
\*      return entry.value
get_expire(t) ==
  /\ th[t].pc = "found" /\ th[t].name = "get"
  /\ IF is_expired(th[t].entry)
       THEN IF th[t].key \in DOMAIN cache
              THEN /\ cache' = Without(cache, th[t].key)
                   /\ th' = [th EXCEPT ![t].pc = "unlock", ![t].ret = "None"]
                   /\ UNCHANGED lock
              ELSE /\ th' = [th EXCEPT ![t].pc = "KeyError"]
                   /\ lock' = "free"
                   /\ UNCHANGED cache
       ELSE /\ th' = [th EXCEPT ![t].pc = "unlock",
                                ![t].ret = th[t].entry.value]
            /\ UNCHANGED <<cache, lock>>
  /\ UNCHANGED <<default_ttl, now, op, lastSet, upVars, pureVars, scr>>

\* set: self._cache[key] = CacheEntry(value, datetime.now() + ttl)
set_store(t) ==
  /\ th[t].pc = "locked" /\ th[t].name = "set"
  /\ cache' = With(cache, th[t].key,
                   CacheEntry(th[t].value, now + EffectiveTtl(th[t].ttl)))
  /\ th' = [th EXCEPT ![t].pc = "unlock", ![t].ret = "None"]
  /\ UNCHANGED <<default_ttl, now, op, lastSet, upVars, pureVars, lock, scr>>

\* delete: if key in self._cache: ... ; return False
delete_check(t) ==
  /\ th[t].pc = "locked" /\ th[t].name = "delete"
  /\ th' = [th EXCEPT ![t] =
              IF th[t].key \in DOMAIN cache
                THEN [@ EXCEPT !.pc = "found", !.seen = cache]
                ELSE [@ EXCEPT !.pc = "unlock", !.ret = FALSE]]
  /\ UNCHANGED <<cacheVars, upVars, pureVars, lock, scr>>

\* delete: del self._cache[key]; return True
delete_del(t) ==
  /\ th[t].pc = "found" /\ th[t].name = "delete"
  /\ IF th[t].key \in DOMAIN cache
       THEN /\ cache' = Without(cache, th[t].key)
            /\ th' = [th EXCEPT ![t].pc = "unlock", ![t].ret = TRUE]
            /\ UNCHANGED lock
       ELSE /\ th' = [th EXCEPT ![t].pc = "KeyError"]
            /\ lock' = "free"
            /\ UNCHANGED cache
  /\ UNCHANGED <<default_ttl, now, op, lastSet, upVars, pureVars, scr>>

\* clear: self._cache.clear()
clear_all(t) ==
  /\ th[t].pc = "locked" /\ th[t].name = "clear"
  /\ cache' = NoEntries
  /\ th' = [th EXCEPT ![t].pc = "unlock", ![t].ret = "None"]
  /\ UNCHANGED <<default_ttl, now, op, lastSet, upVars, pureVars, lock, scr>>

\* cleanup_expired: expired_keys = [key for key, entry in items if expired]
cleanup_collect(t) ==
  /\ th[t].pc = "locked" /\ th[t].name = "cleanup_expired"
  /\ th' = [th EXCEPT ![t].pc = "found", ![t].seen = cache, ![t].at = now,
                      ![t].keys = {k \in DOMAIN cache : is_expired(cache[k])}]
  /\ UNCHANGED <<cacheVars, upVars, pureVars, lock, scr>>

\* cleanup_expired: for key in expired_keys: del self._cache[key]
\*                  return len(expired_keys)
cleanup_del(t) ==
  /\ th[t].pc = "found" /\ th[t].name = "cleanup_expired"
  /\ IF th[t].keys \subseteq DOMAIN cache
       THEN /\ cache' = [k \in DOMAIN cache \ th[t].keys |-> cache[k]]
            /\ th' = [th EXCEPT ![t].pc = "unlock",
                                ![t].ret = Cardinality(th[t].keys)]
            /\ UNCHANGED lock
       ELSE /\ th' = [th EXCEPT ![t].pc = "KeyError"]
            /\ lock' = "free"
            /\ UNCHANGED cache
  /\ UNCHANGED <<default_ttl, now, op, lastSet, upVars, pureVars, scr>>

\* mutant: leaving the block does not release the lock
release_skipped(t) == UNCHANGED lock

\* the end of the "with self._lock" block
release(t) == lock' = "free"

\* the scraper frame after its cache call returned ret:
\*   cached = api_cache.get(cache_key); if cached: return parse(cached)
\*   api_cache.set(cache_key, data, self.cache_ttl); return parse(data)
ReturnTo(s, ret) ==
  IF s.pc = "in_get"
    THEN IF ret # "None"
           THEN [s EXCEPT !.pc = "done", !.cached = ret, !.ret = ret]
           ELSE [s EXCEPT !.pc = "attempt"]
    ELSE IF s.pc = "in_set"
      THEN [s EXCEPT !.pc = "done", !.ret = s.data]
      ELSE s

\* the lock is released and the call returns to its caller; op keeps the last
\* call a thread made on the cache directly
Unlock(t) ==
  /\ th[t].pc = "unlock"
  /\ release(t)
  /\ op' = IF scr[t].pc = "idle"
             THEN [name |-> th[t].name, key |-> th[t].key, ttl |-> th[t].ttl,
                   ret |-> th[t].ret, by |-> t]
             ELSE op
  /\ scr' = [scr EXCEPT ![t] = ReturnTo(scr[t], th[t].ret)]
  /\ th' = [th EXCEPT ![t] = NoCall]
  /\ UNCHANGED <<cache, default_ttl, now, lastSet, upVars, pureVars>>

(* ------------- ZaraScraper: _extract_ids_from_url, _extract_ids --------- *)
\* A URL is a sequence of pieces: the literals the two patterns look for,
\* digits, and another character.
DigitChars == {"1", "2"}
UrlChars == {"-p", ".html", "v1=", "?"} \cup DigitChars

\* a match group, or None
NoId == [t |-> "none", s |-> <<>>]
Id(digits) == [t |-> "str", s |-> digits]

\* \d+ taken greedily from position k: the position after the last digit
RECURSIVE digits_end(_, _)
digits_end(url, k) ==
  IF k <= Len(url) /\ url[k] \in DigitChars THEN digits_end(url, k + 1) ELSE k

\* the rest of -p(\d+)\.html after the digits: \.html at position e, else
\* \d+ gives back one digit and the engine tries again
RECURSIVE html_after(_, _, _)
html_after(url, first, e) ==
  IF e <= first THEN 0
  ELSE IF e <= Len(url) /\ url[e] = ".html" THEN e
  ELSE html_after(url, first, e - 1)

\* re.search(r'-p(\d+)\.html', url) from start position k on: group(1) of
\* the leftmost match, None without a match
RECURSIVE search_product(_, _)
search_product(url, k) ==
  IF k > Len(url) THEN NoId
  ELSE
    LET e == IF url[k] = "-p"
               THEN html_after(url, k + 1, digits_end(url, k + 1))
               ELSE 0
    IN  IF e # 0 THEN Id(SubSeq(url, k + 1, e - 1))
        ELSE search_product(url, k + 1)

\* a color search that starts only where a product match was found
search_color_after_product(url, k) ==
  IF search_product(url, 1) = NoId THEN NoId
  ELSE LET ks == {m \in k..Len(url) :
                    url[m] = "v1=" /\ digits_end(url, m + 1) > m + 1}
       IN  IF ks = {} THEN NoId
           ELSE LET m == CHOOSE m \in ks : \A n \in ks : m <= n
                IN  Id(SubSeq(url, m + 1, digits_end(url, m + 1) - 1))

\* re.search(r'v1=(\d+)', url) from start position k on
RECURSIVE search_color(_, _)
search_color(url, k) ==
  IF k > Len(url) THEN NoId
  ELSE IF url[k] = "v1=" /\ digits_end(url, k + 1) > k + 1
         THEN Id(SubSeq(url, k + 1, digits_end(url, k + 1) - 1))
         ELSE search_color(url, k + 1)

\* product_id, color_id = None, None; the two searches; return both
extract_ids_from_url(url) ==
  [product_id |-> search_product(url, 1), color_id |-> search_color(url, 1)]

\* a call of the extraction by a scraper of some class and region
ExtractCall(impl, region, url) ==
  [pc |-> "called", impl |-> impl, country |-> region.country,
   language |-> region.language, url |-> url,
   product_id |-> NoId, color_id |-> NoId]

NoExtract ==
  [pc |-> "idle", impl |-> "core", country |-> "tr", language |-> "en",
   url |-> <<>>, product_id |-> NoId, color_id |-> NoId]

\* the call runs and returns the pair
extract_ids ==
  /\ ids.pc = "called"
  /\ LET pair == extract_ids_from_url(ids.url)
     IN  ids' = [ids EXCEPT !.pc = "returned",
                            !.product_id = pair.product_id,
                            !.color_id = pair.color_id]
  /\ UNCHANGED <<upVars, cacheVars, lock, th, scr, prs, ntf, appVars>>

(* ------------------ ZaraScraper: get_stock_status, fetch --------------- *)
\* @retry_with_backoff(max_retries=3, base_delay=1.0); config.max_retries
MaxRetries == 3
BaseDelay == 1

\* core: core/scraper.py ZaraScraper with api_cache;
\* zara: scraper/zara.py ZaraScraper with scrape_cache
Impls == {"core", "zara"}

Regions ==
  {[country |-> "tr", language |-> "en"],
   [country |-> "tr", language |-> "tr"],
   [country |-> "de", language |-> "en"]}

\* how one attempt ends: an exception of session.get (timeout, connection
\* error), a status other than 200, a 200 whose body is not JSON, a 200 with
\* an empty array, a 200 with the product record
Responses == {"timeout", "connection_error", "status", "bad_json", "empty",
              "ok"}

\* element [0] of what /{country}/{language}/products-details?productIds=
\* {color_id} answers: the record of the variant in that region
Payload(country, language) ==
  CASE country = "tr" /\ language = "en" -> "record tr/en"
    [] country = "tr" /\ language = "tr" -> "record tr/tr"
    [] country = "de" /\ language = "en" -> "record de/en"
    [] OTHER -> "record"

\* product URLs: with the v1 parameter, with the product segment only, with
\* neither
UrlWithColor == <<"-p", "2", ".html", "?", "v1=", "1">>
UrlWithoutColor == <<"-p", "2", ".html">>
UrlWithoutIds == <<"?">>

\* a scraper object, the URL it is called with and the locals of its running
\* call (pages: page fetches made by the call)
ZaraScraper(impl, region, use_cache) ==
  [pc |-> "idle", impl |-> impl, country |-> region.country,
   language |-> region.language, use_cache |-> use_cache,
   url |-> UrlWithColor, color_id |-> NoId, pages |-> 0,
   cached |-> "None", attempt |-> 0, requests |-> 0, last |-> "", wait |-> 0,
   data |-> "None", ret |-> "None"]

\* core/scraper.py _get_cache_key: f"zara:{country_code}:{language}:{color_id}"
\* scraper/zara.py:                f"zara:{self.country_code}:{color_id}"
cache_key(s) ==
  IF s.impl = "core" THEN <<"zara", s.country, s.language, s.color_id.s>>
                     ELSE <<"zara", s.country, s.color_id.s>>

\* the statement after the color id is known: if self.use_cache: the cache
\* check, else straight to the fetch
after_ids(s) == IF s.use_cache THEN "lookup" ELSE "attempt"

\* get_stock_status / get_product_info up to the color id:
\*   product_id, color_id = self._extract_ids_from_url(url)
\*   if not color_id: color_id = self._get_color_id_from_page(url, product_id)
get_stock_status(t) ==
  /\ scr[t].pc \in {"idle", "done"}
  /\ LET color_id == extract_ids_from_url(scr[t].url).color_id
     IN  scr' = [scr EXCEPT ![t] =
                   [@ EXCEPT !.pc = IF color_id = NoId THEN "page"
                                                      ELSE after_ids(scr[t]),
                             !.color_id = color_id, !.pages = 0,
                             !.cached = "None", !.attempt = 0, !.requests = 0,
                             !.last = "", !.wait = 0, !.data = "None",
                             !.ret = "None"]]
  /\ UNCHANGED <<cacheVars, upVars, pureVars, lock, th>>

\* how the fetch of the product page ends: session.get raises, the page
\* matches none of the three patterns, the page matches one
PageOutcomes == {"raises", "no_match", "match"}

\* a call that goes on to the cache and the API without a color id
page_fetch_goes_on(t, o) ==
  /\ scr[t].pc = "page"
  /\ scr' = [scr EXCEPT ![t] =
               [@ EXCEPT !.pc = after_ids(scr[t]), !.pages = @ + 1,
                         !.color_id = IF o = "match" THEN Id(<<"1">>)
                                                     ELSE NoId]]
  /\ UNCHANGED <<cacheVars, upVars, pureVars, lock, th>>

\* color_id = self._get_color_id_from_page(url, product_id): the page is
\* fetched, an exception is caught inside and gives None like a page without
\* a match; then `if not color_id: return None`
page_fetch(t, o) ==
  /\ scr[t].pc = "page"
  /\ scr' = [scr EXCEPT ![t] =
               IF o = "match"
                 THEN [@ EXCEPT !.pc = after_ids(scr[t]), !.pages = @ + 1,
                                !.color_id = Id(<<"1">>)]
                 ELSE [@ EXCEPT !.pc = "done", !.pages = @ + 1,
                                !.ret = "None"]]
  /\ UNCHANGED <<cacheVars, upVars, pureVars, lock, th>>

\* cached = api_cache.get(cache_key)
cache_get(t) ==
  /\ scr[t].pc = "lookup"
  /\ EnterCall(t, [name |-> "get", key |-> cache_key(scr[t]), value |-> "",
                   ttl |-> NoTtl])
  /\ scr' = [scr EXCEPT ![t].pc = "in_get"]

\* response = self.session.get(api_url, timeout=...): the request is sent
send(t) ==
  /\ scr[t].pc = "attempt"
  /\ scr' = [scr EXCEPT ![t].pc = "request", ![t].requests = @ + 1,
                        ![t].last = ""]
  /\ UNCHANGED <<cacheVars, upVars, pureVars, lock, th>>

\* retry_with_backoff: delay = base_delay * (2 ** attempt)
backoff_delay(attempt) == BaseDelay * (2 ^ attempt)

\* _fetch_api: time.sleep(1.0 * (attempt + 1))
linear_delay(attempt) == 1 * (attempt + 1)

\* mutant: the wrapper sleeps and tries again after every exception
core_respond_unbounded(s, o) ==
  IF o \in {"timeout", "connection_error"}
    THEN [s EXCEPT !.pc = "sleep", !.last = o,
                   !.wait = backoff_delay(s.attempt)]
    ELSE IF o = "ok"
      THEN [s EXCEPT !.pc = "fetched", !.last = o,
                     !.data = Payload(s.country, s.language)]
      ELSE [s EXCEPT !.pc = "fetched", !.last = o, !.data = "None"]

\* core: _fetch_product_data under retry_with_backoff. The wrapper catches
\* RequestException and Timeout only: it sleeps and tries again while
\* attempt < max_retries - 1 and raises the last exception after the loop;
\* a status other than 200, a body that is not JSON and an empty array make
\* the function return None, which the wrapper returns at once.
core_respond(s, o) ==
  IF o \in {"timeout", "connection_error"}
    THEN IF s.attempt < MaxRetries - 1
           THEN [s EXCEPT !.pc = "sleep", !.last = o,
                          !.wait = backoff_delay(s.attempt)]
           ELSE [s EXCEPT !.pc = "fetched", !.last = o, !.data = "raised"]
    ELSE IF o = "ok"
      THEN [s EXCEPT !.pc = "fetched", !.last = o,
                     !.data = Payload(s.country, s.language)]
      ELSE [s EXCEPT !.pc = "fetched", !.last = o, !.data = "None"]

\* zara: _fetch_api. A status other than 200 continues with the next
\* iteration (the sleep at the end of the body is skipped); a non-empty array
\* returns its first element; an empty array, a Timeout and a
\* RequestException (a body that is not JSON raises one) reach the sleep when
\* attempt < max_retries - 1; after the loop the function returns None.
zara_respond(s, o) ==
  IF o = "ok"
    THEN [s EXCEPT !.pc = "fetched", !.last = o,
                   !.data = Payload(s.country, s.language)]
    ELSE IF s.attempt < MaxRetries - 1
      THEN IF o = "status"
             THEN [s EXCEPT !.pc = "attempt", !.last = o,
                            !.attempt = @ + 1]
             ELSE [s EXCEPT !.pc = "sleep", !.last = o,
                            !.wait = linear_delay(s.attempt)]
      ELSE [s EXCEPT !.pc = "fetched", !.last = o, !.data = "None"]

\* the request ends with response o
respond(t, o) ==
  /\ scr[t].pc = "request"
  /\ scr' = [scr EXCEPT ![t] = IF scr[t].impl = "core"
                                 THEN core_respond(scr[t], o)
                                 ELSE zara_respond(scr[t], o)]
  /\ UNCHANGED <<cacheVars, upVars, pureVars, lock, th>>

\* time.sleep(delay) returns and the loop goes on to the next attempt
wake(t) ==
  /\ scr[t].pc = "sleep"
  /\ scr' = [scr EXCEPT ![t].pc = "attempt", ![t].attempt = @ + 1,
                        ![t].wait = 0]
  /\ UNCHANGED <<cacheVars, upVars, pureVars, lock, th>>

\* mutant: the result of a failed fetch is stored like a payload
after_fetch_stores(t) ==
  /\ scr[t].pc = "fetched"
  /\ scr' = [scr EXCEPT ![t] =
               IF @.use_cache
                 THEN [@ EXCEPT !.pc = "store"]
                 ELSE [@ EXCEPT !.pc = "done",
                                !.ret = IF scr[t].data = "raised"
                                          THEN "None" ELSE scr[t].data]]
  /\ UNCHANGED <<cacheVars, upVars, pureVars, lock, th>>

\* get_stock_status after the fetch: an exception of the fetch is caught by
\* "except Exception: return None"; "if not data: return None";
\* "if self.use_cache: api_cache.set(...)"; "return parse(data)"
after_fetch(t) ==
  /\ scr[t].pc = "fetched"
  /\ scr' = [scr EXCEPT ![t] =
               IF @.data \in {"raised", "None"}
                 THEN [@ EXCEPT !.pc = "done", !.ret = "None"]
                 ELSE IF @.use_cache
                   THEN [@ EXCEPT !.pc = "store"]
                   ELSE [@ EXCEPT !.pc = "done", !.ret = scr[t].data]]
  /\ UNCHANGED <<cacheVars, upVars, pureVars, lock, th>>

\* api_cache.set(cache_key, data, self.cache_ttl): cache_ttl is 300, the
\* default ttl of the cache
cache_set(t) ==
  /\ scr[t].pc = "store"
  /\ EnterCall(t, [name |-> "set", key |-> cache_key(scr[t]),
                   value |-> scr[t].data, ttl |-> Ttl(default_ttl)])
  /\ scr' = [scr EXCEPT ![t].pc = "in_set"]

\* a caller invokes _fetch_product_data / _fetch_api itself
fetch(t) ==
  /\ scr[t].pc \in {"idle", "fetched"}
  /\ scr' = [scr EXCEPT ![t] =
               [@ EXCEPT !.pc = "attempt", !.attempt = 0, !.requests = 0,
                         !.last = "", !.wait = 0, !.data = "None"]]
  /\ UNCHANGED <<cacheVars, upVars, pureVars, lock, th>>

(* ---------- ZaraScraper: _parse_product_data, _parse_response ---------- *)
\* A decoded JSON value carries its Python type in t: None, int, str, list or
\* dict.  A dict is a record over the keys the parser reads; a key the object
\* does not carry holds Absent.
Absent == [t |-> "absent"]
JNull == [t |-> "null"]
JNum(n) == [t |-> "num", n |-> n]
JStr(s) == [t |-> "str", s |-> s]
JList(l) == [t |-> "list", l |-> l]
JDict(d) == [t |-> "dict", d |-> d]

\* an exception travelling up from the statement that raised it
Raised == [t |-> "raised"]

\* a test for None in place of the truth value
TruthyNotNone(x) == x.t # "null"

\* bool(x), as `if not colors`, `if xmedia`, `if size_discount` take it
Truthy(x) ==
  CASE x.t = "null" -> FALSE
    [] x.t = "num" -> x.n # 0
    [] x.t = "str" -> x.s # ""
    [] x.t = "list" -> x.l # <<>>
    [] x.t = "dict" -> \E k \in DOMAIN x.d : x.d[k] # Absent
    [] OTHER -> FALSE

\* only a dict has .get; on anything else the call is an AttributeError
HasGet(x) == x.t = "dict"

\* x.get(key, default) on a dict: the default only when the key is missing
dict_get(x, key, default) ==
  IF key \in DOMAIN x.d /\ x.d[key] # Absent THEN x.d[key] ELSE default

\* `for e in x`: None and a number are a TypeError; a list yields its
\* elements; a str or a dict yields strings (characters, keys), one of which
\* stands for all of them here
Iterable(x) == x.t \in {"list", "str", "dict"}

Items(x) ==
  IF x.t = "list" THEN x.l
  ELSE IF Truthy(x) THEN <<JStr("?")>> ELSE <<>>

\* str(n) of a non-negative int
Digit(d) ==
  CASE d = 0 -> "0" [] d = 1 -> "1" [] d = 2 -> "2" [] d = 3 -> "3"
    [] d = 4 -> "4" [] d = 5 -> "5" [] d = 6 -> "6" [] d = 7 -> "7"
    [] d = 8 -> "8" [] d = 9 -> "9"

RECURSIVE NumStr(_)
NumStr(n) == IF n < 10 THEN <<Digit(n)>> ELSE NumStr(n \div 10) \o <<Digit(n % 10)>>

\* str(x) as product_id and color_product_id take it: text is the sequence
\* of characters of the result
Str(x) ==
  CASE x.t = "str" -> IF x.s = "" THEN <<>> ELSE <<x.s>>
    [] x.t = "num" -> NumStr(x.n)
    [] x.t = "null" -> <<"None">>
    [] OTHER -> <<"repr">>

\* n / 100 on an int of minor units: the amount, kept exact as whole units
\* and hundredths
Div100(n) == [whole |-> n \div 100, cents |-> n % 100]

\* amount >= 0
PositiveOrZero(amount) == amount.whole >= 0

\* amount > 0
Positive(amount) == amount.whole > 0 \/ (amount.whole = 0 /\ amount.cents > 0)

\* the literal 0.0
ZeroAmount == [whole |-> 0, cents |-> 0]

\* SizeStock(size=, in_stock=, stock_status=, price=, old_price=, discount=)
ParsedSizeStock(size, in_stock, stock_status, price, old_price, discount) ==
  [size |-> size, in_stock |-> in_stock, stock_status |-> stock_status,
   price |-> price, old_price |-> old_price, discount |-> discount]

\* ProductInfo(product_id=, name=, price=, ..., sizes=); url is the argument
\* handed through and is left out
ParsedProductInfo(product_id, name, price, old_price, discount, color, image_url, sizes) ==
  [t |-> "ok", product_id |-> product_id, name |-> name, price |-> price,
   old_price |-> old_price, discount |-> discount, color |-> color,
   image_url |-> image_url, sizes |-> sizes]

\* return None
ParsedNone == [t |-> "none"]

\* media.get("extraInfo", {}).get("deliveryUrl", "")
delivery_url(media) ==
  LET extra == dict_get(media, "extraInfo", JDict([deliveryUrl |-> Absent]))
  IN  IF ~HasGet(extra) THEN Raised
      ELSE dict_get(extra, "deliveryUrl", JStr(""))

\* for media in xmedia: if media.get("kind") == "full": image_url = ...; break
\* image_url is "" when the loop ends without a break
RECURSIVE full_image(_)
full_image(entries) ==
  IF entries = <<>> THEN JStr("")
  ELSE LET media == Head(entries)
       IN  IF ~HasGet(media) THEN Raised
           ELSE IF dict_get(media, "kind", JNull) = JStr("full")
                  THEN delivery_url(media)
                  ELSE full_image(Tail(entries))

\* always the first entry's delivery URL, whatever its tag
image_from_first_only(xmedia) ==
  IF ~Iterable(xmedia) THEN Raised
  ELSE IF xmedia.t # "list" \/ xmedia.l = <<>> THEN JStr("")
  ELSE IF ~HasGet(xmedia.l[1]) THEN Raised
  ELSE delivery_url(xmedia.l[1])

\* the two statements after image_url = "": the loop, then
\* `if not image_url and xmedia: image_url = xmedia[0]...deliveryUrl`
image_from(xmedia) ==
  IF ~Iterable(xmedia) THEN Raised
  ELSE LET found == full_image(Items(xmedia))
       IN  IF found = Raised THEN Raised
           ELSE IF ~Truthy(found) /\ Truthy(xmedia)
                  THEN IF xmedia.t # "list" \/ ~HasGet(xmedia.l[1])
                         THEN Raised
                         ELSE delivery_url(xmedia.l[1])
                  ELSE found

\* core/scraper.py and zara_scraper.py wrap the two statements in
\* `if xmedia:`; scraper/zara.py runs the loop on whatever xmedia is
image_url_of(impl, xmedia) ==
  IF impl # "zara" /\ ~Truthy(xmedia) THEN JStr("")
  ELSE image_from(xmedia)

\* price, old_price, discount and sizes before the loop over size_data
NoSizesYet ==
  [t |-> "acc", price |-> ZeroAmount, old_price |-> ZeroAmount,
   discount |-> JStr(""), sizes |-> <<>>]

\* for size in size_data: one pass per entry, in payload order
RECURSIVE size_loop(_, _)
size_loop(entries, acc) ==
  IF entries = <<>> THEN acc
  ELSE LET size == Head(entries)
       IN  IF ~HasGet(size) THEN Raised
           ELSE
             LET size_name == dict_get(size, "name", JStr(""))
                 availability ==
                   dict_get(size, "availability", JStr("out_of_stock"))
                 stock_available ==
                   availability.t = "str" /\ StockAvailable(availability.s)
                 minor == dict_get(size, "price", JNum(0))
                 old_minor == dict_get(size, "oldPrice", JNum(0))
                 size_discount == dict_get(size, "discountLabel", JStr(""))
             IN  IF minor.t # "num" \/ old_minor.t # "num" THEN Raised
                 ELSE
                   LET size_price == Div100(minor.n)
                       size_old_price == Div100(old_minor.n)
                   IN  size_loop(Tail(entries),
                         [t |-> "acc",
                          price |-> IF Positive(size_price)
                                      THEN size_price ELSE acc.price,
                          old_price |-> IF Positive(size_old_price)
                                          THEN size_old_price
                                          ELSE acc.old_price,
                          discount |-> IF Truthy(size_discount)
                                         THEN size_discount ELSE acc.discount,
                          sizes |-> Append(acc.sizes,
                                     ParsedSizeStock(size_name,
                                       stock_available, availability,
                                       size_price, size_old_price,
                                       size_discount))])

\* color = colors[-1]
colors_last(colors) == colors.l[Len(colors.l)]

\* color = colors[0]
colors_first(colors) == colors.l[1]

\* from `color = colors[0]` to `return ProductInfo(...)`
parse_color(impl, product_id, name, colors) ==
  IF colors.t # "list" \/ colors.l = <<>> THEN Raised
  ELSE IF ~HasGet(colors_first(colors)) THEN Raised
  ELSE
    LET color == colors_first(colors)
        color_name == dict_get(color, "name", JStr(""))
        color_product_id == Str(dict_get(color, "productId", JStr("")))
        image_url == image_url_of(impl, dict_get(color, "xmedia", JList(<<>>)))
        size_data == dict_get(color, "sizes", JList(<<>>))
    IN  IF image_url = Raised \/ ~Iterable(size_data) THEN Raised
        ELSE
          LET acc == size_loop(Items(size_data), NoSizesYet)
          IN  IF acc = Raised THEN Raised
              ELSE ParsedProductInfo(
                     IF color_product_id # <<>> THEN color_product_id
                                                ELSE product_id,
                     name, acc.price, acc.old_price, acc.discount,
                     color_name, image_url, acc.sizes)

\* a parser that answers a payload without colors with an empty snapshot
parse_body_empty_snapshot(impl, data) ==
  IF ~HasGet(data) THEN Raised
  ELSE
    LET product_id == Str(dict_get(data, "id", JStr("")))
        name == dict_get(data, "name", JStr("Unknown Product"))
        detail == dict_get(data, "detail", JDict([colors |-> Absent]))
    IN  IF ~HasGet(detail) THEN Raised
        ELSE
          LET colors == dict_get(detail, "colors", JList(<<>>))
          IN  IF ~Truthy(colors)
                THEN ParsedProductInfo(product_id, name, ZeroAmount,
                                       ZeroAmount, JStr(""), JStr(""),
                                       JStr(""), <<>>)
                ELSE parse_color(impl, product_id, name, colors)

\* the body of the try block: a ProductInfo, None, or the exception raised
parse_body(impl, data) ==
  IF ~HasGet(data) THEN Raised
  ELSE
    LET product_id == Str(dict_get(data, "id", JStr("")))
        name == dict_get(data, "name", JStr("Unknown Product"))
        detail == dict_get(data, "detail", JDict([colors |-> Absent]))
    IN  IF ~HasGet(detail) THEN Raised
        ELSE
          LET colors == dict_get(detail, "colors", JList(<<>>))
          IN  IF ~Truthy(colors) THEN ParsedNone
              ELSE parse_color(impl, product_id, name, colors)

\* ------------------------------------------------- the parser as a call
ParseImpls == {"core", "zara", "legacy"}

\* a call of the parser: the class, the payload, where the call stands
\* ("called", "except", "returned", "raised") and what it handed back
ParseCall(impl, data) ==
  [pc |-> "called", impl |-> impl, data |-> data, ret |-> ParsedNone]

NoParse == [pc |-> "idle", impl |-> "core", data |-> JNull, ret |-> ParsedNone]

\* try: ... return ProductInfo(...) / return None; an exception goes to the
\* handler
parse_try ==
  /\ prs.pc = "called"
  /\ LET out == parse_body(prs.impl, prs.data)
     IN  prs' = IF out = Raised
                  THEN [prs EXCEPT !.pc = "except"]
                  ELSE [prs EXCEPT !.pc = "returned", !.ret = out]
  /\ UNCHANGED <<upVars, cacheVars, lock, th, scr, ids, ntf, appVars>>

\* a handler that lets the exception go
parse_except_propagates ==
  /\ prs.pc = "except"
  /\ prs' = [prs EXCEPT !.pc = "raised"]
  /\ UNCHANGED <<upVars, cacheVars, lock, th, scr, ids, ntf, appVars>>

\* except Exception as e: logger.error(...); return None
parse_except ==
  /\ prs.pc = "except"
  /\ prs' = [prs EXCEPT !.pc = "returned", !.ret = ParsedNone]
  /\ UNCHANGED <<upVars, cacheVars, lock, th, scr, ids, ntf, appVars>>

(* ------------- ZaraScraper: get_stock_status, cache and parse ---------- *)
\* _parse_product_data / _parse_response as its caller sees it: the snapshot,
\* or None (returned by the body or by the except handler)
parse_product_data(impl, data) ==
  IF parse_body(impl, data) = Raised THEN ParsedNone
                                     ELSE parse_body(impl, data)

\* a scraper of the class for region tr/en and the color id of UrlWithColor
CachedScraper(impl) ==
  [pc |-> "idle", impl |-> impl, country |-> "tr", language |-> "en",
   color_id |-> Id(<<"1">>), hit |-> FALSE, data |-> JNull,
   ret |-> ParsedNone]

\* if self.use_cache: cached = api_cache.get(cache_key);
\* if cached: return self._parse_product_data(cached, url)
\* (TTLCache.get removes an entry it finds expired and returns None)
gs_lookup(impl) ==
  /\ gs.pc \in {"idle", "done"}
  /\ LET s == CachedScraper(impl)
         key == cache_key(s)
         found == key \in DOMAIN cache /\ ~is_expired(cache[key])
         cached == IF found THEN cache[key].value ELSE JNull
     IN  /\ cache' = IF key \in DOMAIN cache /\ ~found
                       THEN Without(cache, key) ELSE cache
         /\ op' = [name |-> "get", key |-> key, ttl |-> NoTtl,
                   ret |-> cached]
         /\ gs' = IF Truthy(cached)
                    THEN [s EXCEPT !.pc = "done", !.hit = TRUE,
                                   !.data = cached,
                                   !.ret = parse_product_data(impl, cached)]
                    ELSE [s EXCEPT !.pc = "fetch"]
  /\ UNCHANGED <<default_ttl, now, lastSet, upVars, lock, th, scr, prs, ids,
                 ntf, mb, ap>>

\* data = self._fetch_product_data(color_id); if not data: return None;
\* if self.use_cache: api_cache.set(cache_key, data, self.cache_ttl);
\* return self._parse_product_data(data, url)
gs_fetched(data) ==
  /\ gs.pc = "fetch"
  /\ LET key == cache_key(gs)
         entry == CacheEntry(data, now + EffectiveTtl(Ttl(default_ttl)))
     IN  IF ~Truthy(data)
           THEN /\ gs' = [gs EXCEPT !.pc = "done", !.data = data,
                                    !.ret = ParsedNone]
                /\ UNCHANGED <<cache, lastSet, op>>
           ELSE /\ cache' = With(cache, key, entry)
                /\ lastSet' = With(lastSet, key, entry)
                /\ op' = [name |-> "set", key |-> key,
                          ttl |-> Ttl(default_ttl), ret |-> "None"]
                /\ gs' = [gs EXCEPT !.pc = "done", !.data = data,
                                    !.ret = parse_product_data(gs.impl, data)]
  /\ UNCHANGED <<default_ttl, now, upVars, lock, th, scr, prs, ids, ntf,
                 mb, ap>>

(* -------------- menu bar app: check_now, _do_check, checker ------------ *)
\* check_now starts a thread that runs _do_check; background_checker runs
\* _do_check in its loop; both work on the same database
Checkers == {"manual", "background"}

MbProducts == {1, 2}

\* the price the site shows
FirstPrice == 10

\* the locals of a _do_check call: products_to_check, the index of p_data,
\* result, alerts, and what the statements of part B and of
\* add_price_history have read so far; gone: the products for which the query
\* of part B found no row in this call (history)
NoChecker ==
  [pc |-> "idle", list |-> <<>>, k |-> 0,
   result |-> [in_stock |-> FALSE, price |-> 0],
   alerts |-> <<>>, last |-> 0, gone |-> {}]

\* the end of an iteration of "for p_data in products_to_check" (also
\* `continue`): the next product, or the notifications after the loop
next_product(s) ==
  [s EXCEPT !.k = @ + 1,
            !.pc = IF s.k + 1 > Len(s.list) THEN "notify" ELSE "scrape",
            !.result = NoChecker.result, !.last = 0]

\* the ids of the set in the order the query returns them
RECURSIVE Listed(_)
Listed(S) ==
  IF S = {} THEN <<>>
  ELSE LET p == CHOOSE q \in S : \A r \in S : q <= r
       IN  <<p>> \o Listed(S \ {p})

\* _do_check, part 1: the active products are listed into dicts and the
\* session is closed; `if not products_to_check: return`
do_check_list(t) ==
  /\ mb.t[t].pc = "idle"
  /\ mb.checks < MaxChecks
  /\ mb' = [mb EXCEPT
              !.checks = @ + 1,
              !.t[t] = IF mb.present = {}
                         THEN NoChecker
                         ELSE [NoChecker EXCEPT !.pc = "scrape",
                                                !.list = Listed(mb.present),
                                                !.k = 1]]
  /\ UNCHANGED <<upVars, cacheVars, lock, th, scr, prs, ids, ntf, gs, ap>>

\* part A: result = scraper.get_stock_status(url); `if not result: continue`;
\* an exception is caught by the except of the iteration
do_check_scrape(t, o) ==
  /\ mb.t[t].pc = "scrape"
  /\ LET s == mb.t[t]
         p == s.list[s.k]
     IN  mb' = [mb EXCEPT !.t[t] =
                  IF o = "ok"
                    THEN [s EXCEPT !.pc = "query",
                                   !.result = [in_stock |-> mb.avail[p],
                                               price |-> mb.price]]
                    ELSE next_product(s)]
  /\ UNCHANGED <<upVars, cacheVars, lock, th, scr, prs, ids, ntf, gs, ap>>

\* mutant: part B goes on without looking at what the query returned
do_check_query_unchecked(t) ==
  /\ mb.t[t].pc = "query"
  /\ mb' = [mb EXCEPT !.t[t].pc = "hist_read"]
  /\ UNCHANGED <<upVars, cacheVars, lock, th, scr, prs, ids, ntf, gs, ap>>

\* part B: session = get_session(); product = query(...).first();
\* if not product: session.close(); continue
do_check_query(t) ==
  /\ mb.t[t].pc = "query"
  /\ LET s == mb.t[t]
         p == s.list[s.k]
     IN  mb' = [mb EXCEPT !.t[t] =
                  IF p \in mb.present
                    THEN [s EXCEPT !.pc = "hist_read"]
                    ELSE [next_product(s) EXCEPT !.gone = @ \cup {p}]]
  /\ UNCHANGED <<upVars, cacheVars, lock, th, scr, prs, ids, ntf, gs, ap>>

\* add_price_history: last_record = query(...).order_by(recorded_at.desc())
\* .first(), in a session of its own; 0 stands for no record
add_price_history_read(t) ==
  /\ mb.t[t].pc = "hist_read"
  /\ LET s == mb.t[t]
         h == mb.hist[s.list[s.k]]
     IN  mb' = [mb EXCEPT !.t[t].pc = "hist_write",
                          !.t[t].last = IF h = <<>> THEN 0 ELSE h[Len(h)]]
  /\ UNCHANGED <<upVars, cacheVars, lock, th, scr, prs, ids, ntf, gs, ap>>

\* add_price_history: if not last_record or last_record.price != price:
\* session.add(history); session.commit()
add_price_history_write(t) ==
  /\ mb.t[t].pc = "hist_write"
  /\ LET s == mb.t[t]
         p == s.list[s.k]
     IN  mb' = [mb EXCEPT
                  !.t[t].pc = "sizes",
                  !.hist[p] = IF s.last = 0 \/ s.last # s.result.price
                                THEN Append(@, s.result.price) ELSE @]
  /\ UNCHANGED <<upVars, cacheVars, lock, th, scr, prs, ids, ntf, gs, ap>>

\* the size loop: current_stock = query(...).first(); the alert when
\* new_stock == 1 and current_stock.in_stock == 0 for the desired size; the
\* row and the product fields are changed in the session, not yet written
do_check_sizes(t) ==
  /\ mb.t[t].pc = "sizes"
  /\ LET s == mb.t[t]
         p == s.list[s.k]
         current_stock == mb.stock[p]
     IN  mb' = [mb EXCEPT !.t[t] =
                  [s EXCEPT !.pc = "commit",
                            !.alerts = IF s.result.in_stock /\ current_stock = 0
                                         THEN Append(@, p) ELSE @]]
  /\ UNCHANGED <<upVars, cacheVars, lock, th, scr, prs, ids, ntf, gs, ap>>

\* session.commit(); session.close(): the row and the product fields are
\* written; when the product row is gone the UPDATE matches no row, the
\* flush raises and the except of the iteration closes the session
do_check_commit(t) ==
  /\ mb.t[t].pc = "commit"
  /\ LET s == mb.t[t]
         p == s.list[s.k]
     IN  mb' = IF p \in mb.present
                 THEN [mb EXCEPT
                         !.t[t] = next_product(s),
                         !.stock[p] = IF s.result.in_stock THEN 1 ELSE 0,
                         !.fields[p] = s.result.price]
                 ELSE [mb EXCEPT !.t[t] = next_product(s)]
  /\ UNCHANGED <<upVars, cacheVars, lock, th, scr, prs, ids, ntf, gs, ap>>

\* for alert in alerts: send_notification(...); the call returns (sent: the
\* number of notifications per product)
do_check_notify(t) ==
  /\ mb.t[t].pc = "notify"
  /\ mb' = [mb EXCEPT
              !.sent = [p \in MbProducts |->
                          @[p] + Cardinality({a \in 1..Len(mb.t[t].alerts) :
                                                mb.t[t].alerts[a] = p})],
              !.t[t] = NoChecker]
  /\ UNCHANGED <<upVars, cacheVars, lock, th, scr, prs, ids, ntf, gs, ap>>

\* the site: the desired size of product p comes in stock
restock(p) ==
  /\ ~mb.avail[p]
  /\ mb' = [mb EXCEPT !.avail[p] = TRUE]
  /\ UNCHANGED <<upVars, cacheVars, lock, th, scr, prs, ids, ntf, gs, ap>>

\* app.py delete_product, from the web app: session.delete(product);
\* session.commit(); the stock rows and the price history go with it
\* (cascade="all, delete-orphan")
delete_product(p) ==
  /\ p \in mb.present
  /\ mb' = [mb EXCEPT !.present = @ \ {p}, !.stock[p] = -1,
                      !.fields[p] = 0, !.hist[p] = <<>>]
  /\ UNCHANGED <<upVars, cacheVars, lock, th, scr, prs, ids, ntf, gs, ap>>

(* ------------------------------ add_product ---------------------------- *)
\* app.py: max_retries = 10; retry_on_lock(max_retries=10)
AddRetries == 10

\* service: ProductService.add_product; app: add_product of app.py
AddImpls == {"service", "app"}

\* what the call returns: (success, message, desired_size_in_stock)
AddResult(success, message, desired_in_stock) ==
  [success |-> success, message |-> message,
   desired_in_stock |-> desired_in_stock]

\* the ZaraProduct row add_product builds
NewProduct(url, info, desired_size) ==
  [url |-> url, price |-> info.price, old_price |-> info.old_price,
   discount |-> info.discount,
   desired_size |-> IF desired_size # "" THEN Upper(desired_size)
                                         ELSE NoSize]

\* the tables as committed: the products, the stock rows and the price
\* history of the id the new product gets
Tables(prod, stock, hist) == [prod |-> prod, stock |-> stock, hist |-> hist]

\* a call of add_product(url, desired_size): its inputs, what the scraper
\* will give, the committed tables, and its locals (attempt: the retry loop
\* of app.py; flushed: the session has sent the INSERT of the product and
\* holds the write lock of the database until commit or rollback)
AddCall(impl, desired_size, site_result, tables) ==
  [pc |-> "start", impl |-> impl, url |-> "url", desired_size |-> desired_size,
   site |-> site_result, store |-> tables, before |-> tables,
   scrapes |-> 0, attempt |-> 0, flushed |-> FALSE, last |-> 0,
   ret |-> AddResult(FALSE, "", "None")]

\* return False, message, None (the session is closed, which rolls back)
add_fails(a, message) ==
  [a EXCEPT !.pc = "returned", !.flushed = FALSE,
            !.ret = AddResult(FALSE, message, "None")]

\* existing = query(ZaraProduct).filter(url == url).first();
\* if existing: session.close(); return False, ...
add_existing ==
  /\ ap.pc = "start"
  /\ ap' = IF \E n \in 1..Len(ap.store.prod) : ap.store.prod[n].url = ap.url
             THEN add_fails(ap, "already tracked")
             ELSE [ap EXCEPT !.pc = "scrape"]
  /\ UNCHANGED <<upVars, cacheVars, lock, th, scr, prs, ids, ntf, gs, mb>>

\* result = scraper.get_stock_status(url) inside try/except Exception;
\* if not result: return False, ...
add_scrape ==
  /\ ap.pc = "scrape"
  /\ ap' = CASE ap.site.kind = "raises" ->
                  [add_fails(ap, "error fetching") EXCEPT !.scrapes = @ + 1]
             [] ap.site.kind = "none" ->
                  [add_fails(ap, "no product info") EXCEPT !.scrapes = @ + 1]
             [] OTHER -> [ap EXCEPT !.pc = "validate", !.scrapes = @ + 1]
  /\ UNCHANGED <<upVars, cacheVars, lock, th, scr, prs, ids, ntf, gs, mb>>

\* any(s.size.upper() == desired_size.upper() for s in result.sizes)
size_exists(desired_size, sizes) ==
  \E n \in 1..Len(sizes) : Upper(sizes[n].size) = Upper(desired_size)

\* mutant: the desired size is not validated
add_validate_skipped ==
  /\ ap.pc = "validate"
  /\ ap' = [ap EXCEPT !.pc = "create"]
  /\ UNCHANGED <<upVars, cacheVars, lock, th, scr, prs, ids, ntf, gs, mb>>

\* if desired_size: ... if not size_exists: return False, ...
add_validate ==
  /\ ap.pc = "validate"
  /\ ap' = IF ap.desired_size # ""
                /\ ~size_exists(ap.desired_size, ap.site.sizes)
             THEN add_fails(ap, "size not found")
             ELSE [ap EXCEPT !.pc = "create"]
  /\ UNCHANGED <<upVars, cacheVars, lock, th, scr, prs, ids, ntf, gs, mb>>

\* product = ZaraProduct(...); session.add(product); session.flush(): the
\* INSERT is sent, the transaction of the session is open
add_create ==
  /\ ap.pc = "create"
  /\ ap' = [ap EXCEPT !.pc = "hist_read", !.flushed = TRUE]
  /\ UNCHANGED <<upVars, cacheVars, lock, th, scr, prs, ids, ntf, gs, mb>>

\* add_price_history / add_if_changed, in a session of its own:
\* last_record = query(...).first();
\* if not last_record or last_record.price != price: the insert follows
add_history_read ==
  /\ ap.pc = "hist_read"
  /\ LET h == ap.store.hist
         last == IF h = <<>> THEN 0 ELSE h[Len(h)]
     IN  ap' = [ap EXCEPT !.last = last,
                          !.pc = IF last = 0 \/ last # ap.site.price
                                   THEN "hist_insert" ELSE "rows"]
  /\ UNCHANGED <<upVars, cacheVars, lock, th, scr, prs, ids, ntf, gs, mb>>

\* session.add(history); session.commit() of the second session. While the
\* first session holds the write lock the INSERT waits for the timeout and
\* raises "database is locked"; retry_on_lock runs the function again, with
\* the same end, and raises after max_retries attempts. service: except
\* OperationalError: rollback, close, return False. app: rollback and the
\* next round of its own loop while attempt < max_retries - 1, then close and
\* return False.
add_history_insert ==
  /\ ap.pc = "hist_insert"
  /\ ap' = IF ap.flushed
             THEN IF ap.impl = "app" /\ ap.attempt < AddRetries - 1
                    THEN [ap EXCEPT !.pc = "create", !.flushed = FALSE,
                                    !.attempt = @ + 1, !.last = 0]
                    ELSE add_fails(ap, "database is busy")
             ELSE [ap EXCEPT !.pc = "rows",
                             !.store.hist = Append(@, ap.site.price)]
  /\ UNCHANGED <<upVars, cacheVars, lock, th, scr, prs, ids, ntf, gs, mb>>

\* the in_stock of the first size that is the desired one; None without a
\* desired size or without such a size
desired_in_stock(desired_size, sizes) ==
  IF desired_size = "" \/ ~size_exists(desired_size, sizes) THEN "None"
  ELSE LET n == CHOOSE m \in 1..Len(sizes) :
                  /\ Upper(sizes[m].size) = Upper(desired_size)
                  /\ \A l \in 1..(m - 1) :
                       Upper(sizes[l].size) # Upper(desired_size)
       IN  sizes[n].in_stock

\* for size in result.sizes: session.add(ZaraStockStatus(...));
\* session.commit(); ...; session.close(); return True, ...
add_rows_commit ==
  /\ ap.pc = "rows"
  /\ ap' = [ap EXCEPT
              !.pc = "returned", !.flushed = FALSE,
              !.store.prod =
                 Append(@, NewProduct(ap.url, ap.site, ap.desired_size)),
              !.store.stock =
                 [n \in 1..Len(ap.site.sizes) |->
                    ZaraStockStatus(ap.site.sizes[n].size,
                                    NewStock(ap.site.sizes[n]),
                                    ap.site.sizes[n].stock_status, 0)],
              !.ret = AddResult(TRUE, "added",
                                desired_in_stock(ap.desired_size,
                                                 ap.site.sizes))]
  /\ UNCHANGED <<upVars, cacheVars, lock, th, scr, prs, ids, ntf, gs, mb>>

(* ------------------- notifications: send_notification ------------------ *)
\* how MacOSNotifier.send ends at the operating system: the platform is not
\* macOS, osascript exits 0, osascript exits with another code, osascript
\* does not end within 5 s, any other exception inside the try block
MacOutcomes == {"not_darwin", "sent", "osascript_failed", "timeout", "error"}

\* MacOSNotifier.send: False off macOS, True when osascript exits 0; every
\* failure leaves as NotificationError
MacOSNotifier_send(o) ==
  CASE o = "not_darwin" -> "False"
    [] o = "sent" -> "True"
    [] OTHER -> "NotificationError"

\* how requests.post to the Telegram API ends: status 200, another status, an
\* exception
TelegramOutcomes == {"200", "status", "exception"}

\* TelegramNotifier.send on an enabled notifier: True only for status 200
TelegramNotifier_send(o) == o = "200"

\* the process: config.telegram_enabled, whether token and chat id are set,
\* the global _telegram_notifier ("None", "enabled", "disabled"), and the
\* send_notification call with its locals (mac: what MacOSNotifier.send did,
\* tg: what the Telegram request did, "not_tried" without one)
Notifications(telegram_enabled, credentials) ==
  [pc |-> "idle", telegram_enabled |-> telegram_enabled,
   credentials |-> credentials, notifier |-> "None", use_telegram |-> TRUE,
   success |-> FALSE, mac |-> "", tg |-> "not_tried", ret |-> FALSE]

NoNotify == Notifications(FALSE, FALSE)

\* send_notification(title, message, subtitle, use_telegram): success = False
send_notification(use_telegram) ==
  /\ ntf.pc \in {"idle", "returned"}
  /\ ntf' = [ntf EXCEPT !.pc = "mac", !.use_telegram = use_telegram,
                        !.success = FALSE, !.mac = "", !.tg = "not_tried",
                        !.ret = FALSE]
  /\ UNCHANGED <<upVars, cacheVars, lock, th, scr, prs, ids, appVars>>

\* a call without the except clause: NotificationError leaves the function
try_macos_uncaught(o) ==
  /\ ntf.pc = "mac"
  /\ ntf' = IF MacOSNotifier_send(o) = "NotificationError"
              THEN [ntf EXCEPT !.pc = "raised", !.mac = o]
              ELSE [ntf EXCEPT !.pc = "telegram", !.mac = o,
                               !.success = (MacOSNotifier_send(o) = "True")]
  /\ UNCHANGED <<upVars, cacheVars, lock, th, scr, prs, ids, appVars>>

\* try: if MacOSNotifier.send(...): success = True
\* except NotificationError: logger.warning(...)
try_macos(o) ==
  /\ ntf.pc = "mac"
  /\ ntf' = [ntf EXCEPT !.pc = "telegram", !.mac = o,
                        !.success = (MacOSNotifier_send(o) = "True")]
  /\ UNCHANGED <<upVars, cacheVars, lock, th, scr, prs, ids, appVars>>

\* get_telegram_notifier(): the global is built once, when
\* config.telegram_enabled; TelegramNotifier.__init__ sets
\* _enabled = bool(bot_token and chat_id)
get_telegram_notifier(n) ==
  IF n.notifier = "None" /\ n.telegram_enabled
    THEN IF n.credentials THEN "enabled" ELSE "disabled"
    ELSE n.notifier

\* if use_telegram: telegram = get_telegram_notifier()
\*   if telegram and telegram.enabled: if telegram.send(...): success = True
\* return success
try_telegram(o) ==
  /\ ntf.pc = "telegram"
  /\ ntf' = IF ~ntf.use_telegram
              THEN [ntf EXCEPT !.pc = "returned", !.ret = ntf.success]
              ELSE
                LET telegram == get_telegram_notifier(ntf)
                IN  IF telegram = "enabled"
                      THEN [ntf EXCEPT
                              !.pc = "returned", !.notifier = telegram,
                              !.tg = o,
                              !.ret = ntf.success \/ TelegramNotifier_send(o)]
                      ELSE [ntf EXCEPT
                              !.pc = "returned", !.notifier = telegram,
                              !.ret = ntf.success]
  /\ UNCHANGED <<upVars, cacheVars, lock, th, scr, prs, ids, appVars>>


(* --------------------------- initial states ---------------------------- *)
InStockOf(availability) == IF StockAvailable(availability) THEN 1 ELSE 0

Row(size, availability) ==
  ZaraStockStatus(size, InStockOf(availability), availability, 0)

\* rows a product may hold when a cycle begins
PriorRows ==
  {Row("M", "in_stock"), Row("M", "out_of_stock"),
   Row("m", "out_of_stock"), Row("S", "low_on_stock"),
   Row("S", "out_of_stock")}

\* size entries a fresh snapshot may hold
FreshSizes ==
  {SizeStock("M", "in_stock"), SizeStock("M", "out_of_stock"),
   SizeStock("m", "in_stock"), SizeStock("S", "low_on_stock"),
   SizeStock("S", "out_of_stock")}

Snapshots ==
  {ProductInfo(sizes, 20, 30, "-33%") : sizes \in SeqsUpTo(FreshSizes, MaxSizes)}

Outcomes == Snapshots \cup {NoResult, ScrapeError}

\* the outcomes of the batches of several products, each with the pass of
\* its size loop that raises
BatchCases ==
  {<<ProductInfo(<<SizeStock("M", "in_stock")>>, 20, 30, "-33%"), 0>>,
   <<ProductInfo(<<SizeStock("M", "out_of_stock"), SizeStock("S", "in_stock")>>,
                 25, 0, ""), 0>>,
   <<ProductInfo(<<SizeStock("M", "in_stock"), SizeStock("S", "in_stock")>>,
                 25, 0, ""), 2>>,
   <<NoResult, 0>>, <<ScrapeError, 0>>}

BatchRows == {<<>>, <<Row("M", "out_of_stock")>>}

CacheIdle ==
  /\ cache = NoEntries
  /\ now = 0
  /\ default_ttl = DefaultTtl
  /\ op = NoOp
  /\ lastSet = NoEntries

\* the menu bar app before any check: the tracked products, each with the
\* row of its desired size out of stock, no price history, nothing sent
NoCheck ==
  [present |-> {}, avail |-> [p \in MbProducts |-> FALSE],
   price |-> FirstPrice, stock |-> [p \in MbProducts |-> -1],
   fields |-> [p \in MbProducts |-> 0], hist |-> [p \in MbProducts |-> <<>>],
   sent |-> [p \in MbProducts |-> 0], checks |-> 0, t |-> [c \in Checkers |-> NoChecker]]

\* no add_product call
NoAdd ==
  [AddCall("service", "", NoResult, Tables(<<>>, <<>>, <<>>))
     EXCEPT !.pc = "idle"]

\* no cached scraper call, no menu bar check and no add_product is under way
AppIdle ==
  /\ gs = CachedScraper("core")
  /\ mb = NoCheck
  /\ ap = NoAdd

\* no parser call, no id extraction and no notification is under way
PureIdle ==
  /\ prs = NoParse
  /\ ids = NoExtract
  /\ ntf = NoNotify
  /\ AppIdle

\* no thread is in a cache call or in a scraper call
ExtIdle ==
  /\ lock = "free"
  /\ th = [t \in Threads |-> NoCall]
  /\ scr = [t \in Threads |->
              ZaraScraper("core", [country |-> "tr", language |-> "en"], TRUE)]
  /\ PureIdle

Idle ==
  /\ sess = db
  /\ prior = db
  /\ pc = "idle"
  /\ cycle = 0
  /\ i = 0
  /\ j = 0
  /\ result = NoResult
  /\ updated = 0
  /\ changes = 0
  /\ size_alerts = <<>>
  /\ rets = <<>>

\* one tracked product, every prior state and every snapshot of the bounds
OneProduct ==
  /\ \E rows \in SeqsUpTo(PriorRows, MaxRows), d \in {NoSize, "M"} :
       db = [prod |-> [p \in {1} |-> ZaraProduct(p, d)],
             stock |-> [p \in {1} |-> rows]]
  /\ site \in [{1} -> Outcomes]
  /\ fault \in [{1} -> {0, 2}]

\* a batch of 0..MaxProducts tracked products
Batch ==
  \E n \in 0..MaxProducts :
    /\ \E st \in [1..n -> BatchRows] :
         db = [prod |-> [p \in 1..n |-> ZaraProduct(p, "M")], stock |-> st]
    /\ \E c \in [1..n -> BatchCases] :
         /\ site = [p \in 1..n |-> c[p][1]]
         /\ fault = [p \in 1..n |-> c[p][2]]

Init ==
  /\ OneProduct \/ Batch
  /\ Idle
  /\ CacheIdle
  /\ ExtIdle

Next ==
  \/ Begin
  \/ ScrapeRaises
  \/ ScrapeNone
  \/ ScrapeOk
  \/ ProcessSize
  \/ SizeLoopRaises
  \/ FinishProduct
  \/ Commit

Spec == Init /\ [][Next]_vars

\* TTLCache(default_ttl_seconds) and no tracked product
CacheInit ==
  /\ cache = NoEntries
  /\ now = 0
  /\ default_ttl \in 1..MaxTtl
  /\ op = NoOp
  /\ lastSet = NoEntries
  /\ db = [prod |-> <<>>, stock |-> <<>>]
  /\ site = <<>>
  /\ fault = <<>>
  /\ Idle
  /\ ExtIdle

CacheNext ==
  \/ \E key \in Keys : get(key)
  \/ \E key \in Keys, value \in Values,
        ttl \in {NoTtl} \cup {Ttl(n) : n \in 0..MaxTtl} : set(key, value, ttl)
  \/ \E key \in Keys : delete(key)
  \/ clear
  \/ cleanup_expired
  \/ Tick

CacheSpec == CacheInit /\ [][CacheNext]_vars

\* the threads of the process call the shared cache
ThreadNext ==
  \/ \E t \in Threads :
       \/ \E c \in Calls : Enter(t, c)
       \/ get_lookup(t)
       \/ get_expire(t)
       \/ set_store(t)
       \/ delete_check(t)
       \/ delete_del(t)
       \/ clear_all(t)
       \/ cleanup_collect(t)
       \/ cleanup_del(t)
       \/ Unlock(t)
  \/ Tick

ThreadSpec == CacheInit /\ [][ThreadNext]_vars

\* two scrapers of one class in one process: the first for tr/en, the second
\* for any region, each with or without caching
ScraperInit ==
  /\ cache = NoEntries
  /\ now = 0
  /\ default_ttl = MaxTtl
  /\ op = NoOp
  /\ lastSet = NoEntries
  /\ db = [prod |-> <<>>, stock |-> <<>>]
  /\ site = <<>>
  /\ fault = <<>>
  /\ Idle
  /\ lock = "free"
  /\ th = [t \in Threads |-> NoCall]
  /\ PureIdle
  /\ \E impl \in Impls, region \in Regions, use \in [Threads -> BOOLEAN] :
       scr = [t \in Threads |->
                ZaraScraper(impl,
                            IF t = "t1" THEN [country |-> "tr",
                                              language |-> "en"]
                                        ELSE region,
                            use[t])]

ScraperNext ==
  \/ \E t \in Threads :
       \/ get_stock_status(t)
       \/ cache_get(t)
       \/ get_lookup(t)
       \/ get_expire(t)
       \/ send(t)
       \* one response of each kind of handling: an exception, a returned
       \* failure, a record
       \/ \E o \in {"timeout", "status", "ok"} : respond(t, o)
       \/ wake(t)
       \/ after_fetch(t)
       \/ cache_set(t)
       \/ set_store(t)
       \/ Unlock(t)
  \/ Tick

ScraperSpec == ScraperInit /\ [][ScraperNext]_vars

\* callers of the fetch function alone, one per thread, of either class
FetchInit ==
  /\ CacheIdle
  /\ db = [prod |-> <<>>, stock |-> <<>>]
  /\ site = <<>>
  /\ fault = <<>>
  /\ Idle
  /\ lock = "free"
  /\ th = [t \in Threads |-> NoCall]
  /\ PureIdle
  /\ \E impl \in [Threads -> Impls] :
       scr = [t \in Threads |->
                ZaraScraper(impl[t], [country |-> "tr", language |-> "en"],
                            FALSE)]

FetchNext ==
  \E t \in Threads :
    \/ fetch(t)
    \/ send(t)
    \/ \E o \in Responses : respond(t, o)
    \/ wake(t)

FetchSpec == FetchInit /\ [][FetchNext]_vars

(* ------------------------ payloads for the parser ----------------------- *)
\* the product JSON around a detail object, and a color entry
ProductJson(detail) ==
  JDict([id |-> JStr("1"), name |-> JStr("T"), detail |-> detail])

ColorJson(productId, xmedia, sizes) ==
  JDict([name |-> JStr("red"), productId |-> productId, xmedia |-> xmedia,
         sizes |-> sizes])

MediaJson(kind, extraInfo) == JDict([kind |-> kind, extraInfo |-> extraInfo])

SizeJson(name, availability, price, oldPrice, discountLabel) ==
  JDict([name |-> name, availability |-> availability, price |-> price,
         oldPrice |-> oldPrice, discountLabel |-> discountLabel])

OneSize == JList(<<SizeJson(JStr("M"), JStr("in_stock"), JNum(1999), JNum(0),
                            JStr(""))>>)

WithColor(color) == ProductJson(JDict([colors |-> JList(<<color>>)]))

\* media entries: tagged full, tagged otherwise or untagged; with a delivery
\* URL, with an empty one, or without
MediaEntries ==
  {MediaJson(k, e) :
     k \in {Absent, JStr("full"), JStr("thumb")},
     e \in {Absent} \cup
           {JDict([deliveryUrl |-> u]) :
              u \in {Absent, JStr(""), JStr("u1"), JStr("u2")}}}

MediaPayloads ==
  {WithColor(ColorJson(JNum(7), x, OneSize)) :
     x \in {Absent} \cup {JList(l) : l \in SeqsUpTo(MediaEntries, MaxMedia)}}

\* size entries that differ in availability: the three available values, two
\* other values, a value the code has never seen, and no field at all
AvailabilityEntries ==
  {SizeJson(JStr("M"), a, JNum(1999), JNum(2999), JStr("-33%")) :
     a \in {Absent} \cup
           {JStr(s) : s \in {"in_stock", "low_on_stock", "back_soon",
                             "out_of_stock", "coming_soon", "sold_out"}}}

AvailabilityPayloads ==
  {WithColor(ColorJson(JNum(7), Absent, JList(l))) :
     l \in SeqsUpTo(AvailabilityEntries, MaxSizes) \ {<<>>}}

\* size entries that differ in their price fields: amounts in minor units,
\* and an entry without any of the fields
PriceEntries ==
  {SizeJson(JStr("M"), JStr("in_stock"), p, o, d) :
     p \in {JNum(0), JNum(50), JNum(1999)},
     o \in {JNum(0), JNum(2999)},
     d \in {JStr(""), JStr("-33%")}}
  \cup {SizeJson(JStr("M"), Absent, Absent, Absent, Absent)}

PricePayloads ==
  {WithColor(ColorJson(JNum(7), Absent, JList(l))) :
     l \in SeqsUpTo(PriceEntries, MaxSizes)}

\* payloads that lack a level, or hold a value of the wrong type at it
BrokenMedia ==
  {JNull, JNum(0), JStr(""), JList(<<JNull>>),
   JList(<<MediaJson(JStr("full"), JNull)>>),
   JList(<<MediaJson(JStr("thumb"), JDict([deliveryUrl |-> JStr("u1")])),
           JStr("u2")>>)}

BrokenSizes ==
  {Absent, JNull, JList(<<>>), JList(<<JNull>>),
   JList(<<SizeJson(JStr("M"), JNull, JNum(1999), JNum(0), JStr(""))>>),
   JList(<<SizeJson(JStr("M"), JStr("in_stock"), JNull, JNum(0), JStr(""))>>),
   JList(<<SizeJson(JStr("M"), JStr("in_stock"), JNum(1999), JStr("29.99"),
                    JStr(""))>>)}

StructurePayloads ==
  {JNull, JList(<<>>), JStr("<html>")}
  \cup {ProductJson(d) : d \in {Absent, JNull, JList(<<>>)}}
  \cup {ProductJson(JDict([colors |-> c])) :
          c \in {Absent, JNull, JList(<<>>), JList(<<JNull>>), JNum(1),
                 JList(<<ColorJson(Absent, Absent, OneSize),
                         ColorJson(JNum(7), Absent, JList(<<>>))>>)}}
  \cup {WithColor(ColorJson(JNum(7), x, OneSize)) : x \in BrokenMedia}
  \cup {WithColor(ColorJson(JNum(7), Absent, s)) : s \in BrokenSizes}

\* payloads with several color entries: a first entry, then entries of other
\* variants, well-formed or not
FirstColors ==
  {ColorJson(JNum(7), Absent, OneSize),
   ColorJson(Absent,
             JList(<<MediaJson(JStr("full"),
                               JDict([deliveryUrl |-> JStr("u1")]))>>),
             JList(<<SizeJson(JStr("S"), JStr("out_of_stock"), JNum(50),
                              JNum(0), JStr(""))>>)),
   ColorJson(JNum(7), Absent, JNull)}

OtherColors ==
  {JNull,
   ColorJson(JNum(8),
             JList(<<MediaJson(JStr("full"),
                               JDict([deliveryUrl |-> JStr("u2")]))>>),
             JList(<<SizeJson(JStr("L"), JStr("in_stock"), JNum(2999),
                              JNum(1999), JStr("-33%"))>>)),
   ColorJson(JNum(9), JNull, JNull)}

ColorPayloads ==
  {ProductJson(JDict([colors |-> JList(<<f>> \o rest)])) :
     f \in FirstColors, rest \in SeqsUpTo(OtherColors, MaxColors - 1)}

Payloads ==
  StructurePayloads \cup MediaPayloads \cup AvailabilityPayloads
  \cup PricePayloads \cup ColorPayloads

\* the parser alone: one call on every payload of the bounds, in each class
ParseInit ==
  /\ db = [prod |-> <<>>, stock |-> <<>>]
  /\ site = <<>>
  /\ fault = <<>>
  /\ Idle
  /\ CacheIdle
  /\ AppIdle
  /\ lock = "free"
  /\ th = [t \in Threads |-> NoCall]
  /\ scr = [t \in Threads |->
              ZaraScraper("core", [country |-> "tr", language |-> "en"], TRUE)]
  /\ ids = NoExtract
  /\ ntf = NoNotify
  /\ \E impl \in ParseImpls, data \in Payloads : prs = ParseCall(impl, data)

ParseNext == parse_try \/ parse_except

ParseSpec == ParseInit /\ [][ParseNext]_vars

\* the URLs of the bounds
Urls == SeqsUpTo(UrlChars, MaxUrl)

\* the extraction alone: one call on every URL, by a scraper of each class
\* and region
ExtractInit ==
  /\ db = [prod |-> <<>>, stock |-> <<>>]
  /\ site = <<>>
  /\ fault = <<>>
  /\ Idle
  /\ CacheIdle
  /\ AppIdle
  /\ lock = "free"
  /\ th = [t \in Threads |-> NoCall]
  /\ scr = [t \in Threads |->
              ZaraScraper("core", [country |-> "tr", language |-> "en"], TRUE)]
  /\ prs = NoParse
  /\ ntf = NoNotify
  /\ \E impl \in ParseImpls, region \in Regions, url \in Urls :
       ids = ExtractCall(impl, region, url)

ExtractNext == extract_ids

ExtractSpec == ExtractInit /\ [][ExtractNext]_vars

\* one scraper of either class, called again and again with one URL that
\* carries the color id, only the product id, or neither
StatusInit ==
  /\ cache = NoEntries
  /\ now = 0
  /\ default_ttl = MaxTtl
  /\ op = NoOp
  /\ lastSet = NoEntries
  /\ db = [prod |-> <<>>, stock |-> <<>>]
  /\ site = <<>>
  /\ fault = <<>>
  /\ Idle
  /\ lock = "free"
  /\ th = [t \in Threads |-> NoCall]
  /\ PureIdle
  /\ \E impl \in Impls, use \in BOOLEAN,
        url \in {UrlWithColor, UrlWithoutColor, UrlWithoutIds} :
       scr = [t \in Threads |->
                [ZaraScraper(impl, [country |-> "tr", language |-> "en"], use)
                   EXCEPT !.url = url]]

StatusNext ==
  \/ \E t \in {"t1"} :
       \/ get_stock_status(t)
       \/ \E o \in PageOutcomes : page_fetch(t, o)
       \/ cache_get(t)
       \/ get_lookup(t)
       \/ get_expire(t)
       \/ send(t)
       \/ \E o \in {"timeout", "status", "ok"} : respond(t, o)
       \/ wake(t)
       \/ after_fetch(t)
       \/ cache_set(t)
       \/ set_store(t)
       \/ Unlock(t)
  \/ Tick

StatusSpec == StatusInit /\ [][StatusNext]_vars

\* the notification function alone, under each configuration
NotifyInit ==
  /\ db = [prod |-> <<>>, stock |-> <<>>]
  /\ site = <<>>
  /\ fault = <<>>
  /\ Idle
  /\ CacheIdle
  /\ AppIdle
  /\ lock = "free"
  /\ th = [t \in Threads |-> NoCall]
  /\ scr = [t \in Threads |->
              ZaraScraper("core", [country |-> "tr", language |-> "en"], TRUE)]
  /\ prs = NoParse
  /\ ids = NoExtract
  /\ \E telegram_enabled \in BOOLEAN, credentials \in BOOLEAN :
       ntf = Notifications(telegram_enabled, credentials)

NotifyNext ==
  \/ \E use_telegram \in BOOLEAN : send_notification(use_telegram)
  \/ \E o \in MacOutcomes : try_macos(o)
  \/ \E o \in TelegramOutcomes : try_telegram(o)

NotifySpec == NotifyInit /\ [][NotifyNext]_vars

\* what the API answers as element [0]: a record that parses to a snapshot,
\* records that parse to None (no colors, no detail, sizes: null), null
CachedPayloads ==
  {WithColor(ColorJson(JNum(7), Absent, OneSize)),
   ProductJson(JDict([colors |-> JList(<<>>)])),
   ProductJson(Absent),
   WithColor(ColorJson(JNum(7), Absent, JNull)),
   JNull}

\* get_stock_status with use_cache, by a scraper of each class, while time
\* passes
CachedInit ==
  /\ cache = NoEntries
  /\ now = 0
  /\ default_ttl \in 1..MaxTtl
  /\ op = NoOp
  /\ lastSet = NoEntries
  /\ db = [prod |-> <<>>, stock |-> <<>>]
  /\ site = <<>>
  /\ fault = <<>>
  /\ Idle
  /\ ExtIdle

CachedNext ==
  \/ \E impl \in Impls : gs_lookup(impl)
  \/ \E data \in CachedPayloads : gs_fetched(data)
  \/ Tick

CachedSpec == CachedInit /\ [][CachedNext]_vars

\* two tracked products whose desired size is out of stock; the manual and
\* the background check run while the site and the web app act
CheckInit ==
  /\ db = [prod |-> <<>>, stock |-> <<>>]
  /\ site = <<>>
  /\ fault = <<>>
  /\ Idle
  /\ CacheIdle
  /\ lock = "free"
  /\ th = [t \in Threads |-> NoCall]
  /\ scr = [t \in Threads |->
              ZaraScraper("core", [country |-> "tr", language |-> "en"], TRUE)]
  /\ prs = NoParse
  /\ ids = NoExtract
  /\ ntf = NoNotify
  /\ gs = CachedScraper("core")
  /\ ap = NoAdd
  /\ mb = [NoCheck EXCEPT !.present = MbProducts,
                          !.stock = [p \in MbProducts |-> 0]]

CheckNext ==
  \/ \E t \in Checkers :
       \/ do_check_list(t)
       \/ \E o \in {"ok", "none", "raises"} : do_check_scrape(t, o)
       \/ do_check_query(t)
       \/ add_price_history_read(t)
       \/ add_price_history_write(t)
       \/ do_check_sizes(t)
       \/ do_check_commit(t)
       \/ do_check_notify(t)
  \/ \E p \in MbProducts : restock(p) \/ delete_product(p)

CheckSpec == CheckInit /\ [][CheckNext]_vars

\* the desired_size arguments: none, sizes in lower case, a size no snapshot
\* of the bounds carries
DesiredSizes == {"", "m", "s", "L"}

\* the tables before the call: nothing tracked or the URL tracked already;
\* no price history for the id the product will get, or a record left there
\* (ids are reused and foreign keys are not enforced)
AddTables ==
  {Tables(prod, <<>>, hist) :
     prod \in {<<>>, <<NewProduct("url", ProductInfo(<<>>, 10, 0, ""), "")>>},
     hist \in {<<>>, <<20>>, <<10>>}}

\* one add_product call of each class on every input of the bounds
AddInit ==
  /\ db = [prod |-> <<>>, stock |-> <<>>]
  /\ site = <<>>
  /\ fault = <<>>
  /\ Idle
  /\ CacheIdle
  /\ lock = "free"
  /\ th = [t \in Threads |-> NoCall]
  /\ scr = [t \in Threads |->
              ZaraScraper("core", [country |-> "tr", language |-> "en"], TRUE)]
  /\ prs = NoParse
  /\ ids = NoExtract
  /\ ntf = NoNotify
  /\ gs = CachedScraper("core")
  /\ mb = NoCheck
  /\ \E impl \in AddImpls, desired_size \in DesiredSizes,
        site_result \in Outcomes, tables \in AddTables :
       ap = AddCall(impl, desired_size, site_result, tables)

AddNext ==
  \/ add_existing
  \/ add_scrape
  \/ add_validate
  \/ add_create
  \/ add_history_read
  \/ add_history_insert
  \/ add_rows_commit

AddSpec == AddInit /\ [][AddNext]_vars

(* ------------------------------- claims -------------------------------- *)

\* the triple returned by the last update_all_products call that ended
LastRet == rets[Len(rets)]

Returned == pc = "idle" /\ rets # <<>>

\* the processing of product p raises inside its size loop
MidRaised(p) ==
  site[p].kind = "ok" /\ fault[p] \in 1..Len(site[p].sizes)

\* the products that yield a snapshot and complete without exception
Completed == {p \in Products : site[p].kind = "ok" /\ ~MidRaised(p)}

\* two labels are the same size up to letter case
SameIgnoringCase(a, b) ==
  \/ a = b
  \/ {a, b} = {"M", "m"}
  \/ {a, b} = {"S", "s"}

\* the step is one pass of the size loop
SizePass == pc = "sizes" /\ j' = j + 1

\* the entry of the pass and the prior row the lookup of its label gives
PassEntry == result.sizes[j]
PassRows == sess.stock[i]
PassHasPrior == \E k \in 1..Len(PassRows) : PassRows[k].size = PassEntry.size
PassPrior ==
  PassRows[CHOOSE k \in 1..Len(PassRows) :
             /\ PassRows[k].size = PassEntry.size
             /\ \A m \in 1..Len(PassRows) :
                  PassRows[m].size = PassEntry.size => k <= m]
PassDiffers ==
  /\ PassHasPrior
  /\ (PassPrior.in_stock = 1) # PassEntry.in_stock

\* C1: whatever products raise, every call that ended has returned its
\* triple, every product that yielded a snapshot and completed was processed
\* (its last_check is the call's time), and updatedCount is their number.
C1_BatchIsolation ==
  /\ pc = "idle" => Len(rets) = cycle
  /\ Returned =>
       /\ LastRet.updated = Cardinality(Completed)
       /\ \A p \in Completed :
            /\ db.prod[p].last_check = cycle
            /\ db.prod[p].price = site[p].price

C1_Witness ==
  /\ Returned
  /\ Products = {1, 2, 3}
  /\ site[1].kind = "ok" /\ site[2].kind = "raises" /\ site[3].kind = "ok"
  /\ Completed = {1, 3}
  /\ LastRet.updated = 2

C5_CaseInsensitiveLookup ==
  [][ (SizePass /\ \E k \in 1..Len(PassRows) :
                     SameIgnoringCase(PassRows[k].size, PassEntry.size)) =>
        /\ Len(sess'.stock[i]) = Len(PassRows)
        /\ \E k \in 1..Len(PassRows) :
             /\ SameIgnoringCase(PassRows[k].size, PassEntry.size)
             /\ (sess'.stock[i][k].in_stock = 1) = PassEntry.in_stock
             /\ ( /\ (PassRows[k].in_stock = 1) # PassEntry.in_stock
                  /\ PassEntry.in_stock
                  /\ SameIgnoringCase(PassEntry.size,
                                      sess.prod[i].desired_size) ) =>
                  Len(size_alerts') = Len(size_alerts) + 1
    ]_vars

\* the labels of a snapshot are pairwise different
NoRepeatedLabel(sizes) ==
  \A a, b \in 1..Len(sizes) : sizes[a].size = sizes[b].size => a = b

\* the last entry of the snapshot of p, among those processed, with the label
LastEntry(p, label) ==
  LET done == {a \in 1..Len(site[p].sizes) :
                 /\ site[p].sizes[a].size = label
                 /\ (fault[p] = 0 \/ a < fault[p])}
  IN IF done = {} THEN 0
     ELSE CHOOSE a \in done : \A b \in done : b <= a

C7_NoSnapshotSkips ==
  /\ [](\A p \in Products : site[p].kind = "none" =>
          /\ sess.stock[p] = prior.stock[p]
          /\ sess.prod[p] = prior.prod[p]
          /\ db.stock[p] = prior.stock[p]
          /\ db.prod[p] = prior.prod[p]
          /\ \A a \in 1..Len(size_alerts) : size_alerts[a].product_id # p)
  /\ [][ (pc = "scrape" /\ i \in Products /\ site[i].kind = "none") =>
           /\ updated' = updated
           /\ changes' = changes
           /\ size_alerts' = size_alerts
           /\ sess' = sess
           /\ db' = db
           /\ i' = i + 1
           /\ pc' = "scrape"
       ]_vars

C7_Witness ==
  /\ Returned
  /\ Cardinality(Products) = 2
  /\ site[1].kind = "none"
  /\ site[2].kind = "ok"
  /\ fault[2] = 0
  /\ db.stock[1] # <<>>
  /\ db.prod[1].last_check = 0
  /\ db.prod[2].last_check = cycle
  /\ LastRet.updated = 1

\* C8: a get never returns the value of an entry whose expiry time is at or
\* before the current time: after a get that returned a value the entry is
\* stored, holds that value and expires later than now; after a get that
\* returned None the key is not in the storage (an expired entry was removed
\* in the same step) and len does not count it.
C8_GetNeverStale ==
  op.name = "get" =>
    IF op.ret # "None"
      THEN /\ op.key \in DOMAIN cache
           /\ cache[op.key].value = op.ret
           /\ cache[op.key].expires_at > now
      ELSE /\ op.key \notin DOMAIN cache
           /\ CacheLen <= Cardinality(DOMAIN cache \ {op.key})

C8_Witness ==
  /\ op.name = "get"
  /\ op.ret = "None"
  /\ op.key \in DOMAIN lastSet
  /\ lastSet[op.key].expires_at = now
  /\ op.key \notin DOMAIN cache
  /\ DOMAIN cache # {}

\* C9: get returns the value of the most recent set of the key when no
\* delete of it, no clear and no expiry happened since, and None otherwise
\* (never set, deleted, cleared, expired); delete returns true exactly when
\* the key was stored.
C9_GetReturnsLastSet ==
  /\ [](op.name = "get" =>
          op.ret = IF /\ op.key \in DOMAIN lastSet
                      /\ now < lastSet[op.key].expires_at
                     THEN lastSet[op.key].value
                     ELSE "None")
  /\ [][ op'.name = "delete" =>
           /\ op'.ret = (op'.key \in DOMAIN cache)
           /\ op'.key \notin DOMAIN cache'
       ]_vars

C9_Witness ==
  /\ op.name = "get"
  /\ op.ret = "v2"
  /\ op.key \in DOMAIN lastSet
  /\ lastSet[op.key].value = "v2"
  /\ now > 0

\* C10: right after set(key, value, ttl) the entry expires ttl seconds after
\* now for every explicit ttl, 0 included, and default_ttl seconds after now
\* when no ttl was passed; the other entries keep their expiry.
C10_ExplicitTtlHonoured ==
  [][ op'.name = "set" =>
        /\ cache'[op'.key].expires_at =
             now + (IF op'.ttl.given THEN op'.ttl.seconds ELSE default_ttl)
        /\ \A k \in DOMAIN cache \ {op'.key} :
             k \in DOMAIN cache' /\ cache'[k] = cache[k]
    ]_vars

\* C11: cleanup_expired removes exactly the entries whose expiry time is at
\* or before the current time, returns how many it removed, and leaves every
\* other entry in the storage with its value and expiry time.
C11_CleanupExact ==
  [][ op'.name = "cleanup_expired" =>
        LET expired == {k \in DOMAIN cache : now >= cache[k].expires_at}
        IN /\ DOMAIN cache' = DOMAIN cache \ expired
           /\ \A k \in DOMAIN cache' : cache'[k] = cache[k]
           /\ op'.ret = Cardinality(expired)
           /\ op'.ret = Cardinality(DOMAIN cache) - Cardinality(DOMAIN cache')
    ]_vars

C11_Witness ==
  /\ op.name = "cleanup_expired"
  /\ op.ret = 1
  /\ Cardinality(DOMAIN cache) = 1
  /\ \A k \in DOMAIN cache : cache[k].expires_at > now
  /\ \E k \in DOMAIN lastSet \ DOMAIN cache : lastSet[k].expires_at <= now

\* the time at which the call of a thread reads the clock: a sweep reads it
\* while it collects the expired keys, a get when it tests the entry it found
ClockOf(c) == IF c.name = "cleanup_expired" /\ c.pc = "found" THEN c.at ELSE now

\* what the call of a thread returns when it runs in one step on the storage
AtomicRet(c) ==
  CASE c.name = "get" ->
         IF c.key \in DOMAIN cache /\ ClockOf(c) < cache[c.key].expires_at
           THEN cache[c.key].value ELSE "None"
    [] c.name = "delete" -> c.key \in DOMAIN cache
    [] c.name = "cleanup_expired" ->
         Cardinality({k \in DOMAIN cache : ClockOf(c) >= cache[k].expires_at})
    [] OTHER -> "None"

\* the storage that call leaves when it runs in one step
AtomicCache(c) ==
  CASE c.name = "get" ->
         IF c.key \in DOMAIN cache /\ ClockOf(c) >= cache[c.key].expires_at
           THEN Without(cache, c.key) ELSE cache
    [] c.name = "set" ->
         With(cache, c.key, CacheEntry(c.value, now + EffectiveTtl(c.ttl)))
    [] c.name = "delete" -> Without(cache, c.key)
    [] c.name = "clear" -> NoEntries
    [] OTHER ->
         [k \in {x \in DOMAIN cache : ClockOf(c) < cache[x].expires_at} |->
            cache[k]]

\* C12: with two threads calling get, set, delete, clear and cleanup_expired
\* on one cache, at most one thread is inside a call; the storage a call
\* checked is the storage it then accesses, so no call ends in a KeyError for
\* a key another thread removed in between; and every call returns, and
\* leaves in the storage, what the same call run in one step would.
C12_CallsAreAtomic ==
  /\ [](/\ \A t \in Threads : th[t].pc # "KeyError"
        /\ \A t \in Threads : th[t].pc = "found" => cache = th[t].seen
        /\ \A t, u \in Threads :
             th[t].pc # "idle" /\ th[u].pc # "idle" => t = u)
  /\ [][ \A t \in Threads :
           th[t].pc \in {"locked", "found"} /\ th'[t].pc = "unlock" =>
             /\ th'[t].ret = AtomicRet(th[t])
             /\ cache' = AtomicCache(th[t])
       ]_vars

C12_Witness ==
  /\ th["t2"].pc = "found"
  /\ th["t2"].name = "get"
  /\ th["t1"].pc = "idle"
  /\ op.name = "set"
  /\ op.by = "t1"
  /\ op.key = th["t2"].key
  /\ th["t2"].entry.expires_at = now

\* C13: while get_stock_status runs, a thread holds the cache lock only
\* inside its own cache get or cache set call: a thread whose HTTP request is
\* in flight, or that sleeps between two attempts, holds no lock and is in no
\* cache call.
C13_NoLockAcrossIO ==
  /\ \A t \in Threads :
       scr[t].pc \in {"request", "sleep"} => lock # t /\ th[t].pc = "idle"
  /\ \A t \in Threads : lock = t => scr[t].pc \in {"in_get", "in_set"}

C13_Witness ==
  /\ scr["t1"].use_cache
  /\ scr["t1"].pc = "request"
  /\ scr["t2"].use_cache
  /\ scr["t2"].pc = "sleep"
  /\ scr["t2"].wait = 2
  /\ lock = "free"

\* another thread is inside a cache call while the request is in flight
C13_WitnessHeld ==
  /\ scr["t1"].use_cache
  /\ scr["t1"].pc = "request"
  /\ lock = "t2"
  /\ scr["t2"].pc = "in_get"

\* C14: with two scrapers of one process that differ in country or in
\* language and ask for the same variant id, a call that returns a record
\* returns the record of its own country and language, never the one the
\* other scraper cached.
C14_RegionsIsolated ==
  \A t \in Threads :
    scr[t].pc = "done" /\ scr[t].ret # "None" =>
      scr[t].ret = Payload(scr[t].country, scr[t].language)

\* C15: an entry is created or changed only by the set of a scraper with
\* caching enabled whose lookup missed and whose fetch then returned a record,
\* under that scraper's key, with that record and the expiry of that moment;
\* so a failed fetch and a hit leave every entry as it was. A scraper with
\* caching disabled never calls the cache.
C15_StoreOnlyAfterMissAndFetch ==
  /\ [][ \A k \in DOMAIN cache' :
           k \notin DOMAIN cache \/ cache'[k] # cache[k] =>
             \E t \in Threads :
               /\ scr[t].pc = "in_set"
               /\ scr[t].use_cache
               /\ scr[t].cached = "None"
               /\ scr[t].last = "ok"
               /\ scr[t].data = Payload(scr[t].country, scr[t].language)
               /\ k = cache_key(scr[t])
               /\ cache'[k] = CacheEntry(scr[t].data, now + default_ttl)
       ]_vars
  /\ [][ \A t \in Threads :
           /\ (/\ scr[t].pc = "fetched"
               /\ scr[t].data \in {"None", "raised"}
               /\ scr'[t].pc # "fetched"
               => scr'[t].pc = "done" /\ cache' = cache)
           /\ (scr[t].pc = "in_get" /\ scr'[t].pc = "done" =>
                 /\ cache' = cache
                 /\ scr'[t].ret = cache[cache_key(scr[t])].value)
       ]_vars
  /\ [](\A t \in Threads :
          ~scr[t].use_cache =>
            /\ th[t].pc = "idle"
            /\ scr[t].pc \notin {"lookup", "in_get", "store", "in_set"})

\* a hit after the clock moved, the entry still expiring when its creation
\* set it, next to a failed fetch of a caching scraper that left no entry
C15_Witness ==
  /\ scr["t1"].pc = "done"
  /\ scr["t1"].cached # "None"
  /\ cache_key(scr["t1"]) \in DOMAIN cache
  /\ now > 0
  /\ cache[cache_key(scr["t1"])].expires_at = default_ttl
  /\ scr["t2"].use_cache
  /\ scr["t2"].pc = "done"
  /\ scr["t2"].last = "timeout"
  /\ scr["t2"].ret = "None"
  /\ cache_key(scr["t2"]) \notin DOMAIN cache

\* a scraper with caching disabled returned a record and the storage is empty
C15_WitnessDisabled ==
  /\ ~scr["t1"].use_cache
  /\ scr["t1"].pc = "done"
  /\ scr["t1"].ret # "None"
  /\ scr["t2"].pc = "done"
  /\ cache = NoEntries

\* the step in which the request of thread t ends
Responds(t) == scr[t].pc = "request" /\ scr'[t].pc # "request"

\* C16: one fetch call sends at most MaxRetries requests whatever the
\* responses; the response to the MaxRetries-th request ends the call; and a
\* 200 with a non-empty array ends the call at once with its first element.
C16_BoundedAttempts ==
  /\ [](\A t \in Threads :
          /\ scr[t].requests <= MaxRetries
          /\ scr[t].attempt < MaxRetries)
  /\ [][ \A t \in Threads :
           Responds(t) =>
             /\ (scr[t].requests = MaxRetries => scr'[t].pc = "fetched")
             /\ (scr'[t].last = "ok" =>
                   /\ scr'[t].pc = "fetched"
                   /\ scr'[t].data = Payload(scr[t].country, scr[t].language))
       ]_vars

\* one call used all its attempts, another ended at the second with a record
C16_Witness ==
  /\ scr["t1"].impl = "core"
  /\ scr["t1"].pc = "fetched"
  /\ scr["t1"].requests = MaxRetries
  /\ scr["t1"].last = "timeout"
  /\ scr["t2"].impl = "zara"
  /\ scr["t2"].pc = "fetched"
  /\ scr["t2"].requests = 2
  /\ scr["t2"].last = "ok"

\* C17: an attempt that ends in a status other than 200, or in a 200 whose
\* body is not JSON, is followed by another attempt while fewer than
\* MaxRetries requests were sent; the call ends without data for such a
\* response only after the MaxRetries-th request.
C17_BadResponseRetried ==
  /\ [][ \A t \in Threads :
           /\ Responds(t)
           /\ scr'[t].last \in {"status", "bad_json"}
           /\ scr[t].requests < MaxRetries
           => scr'[t].pc \in {"attempt", "sleep"}
       ]_vars
  /\ [](\A t \in Threads :
          scr[t].pc = "fetched" /\ scr[t].last \in {"status", "bad_json"} =>
            scr[t].requests = MaxRetries)

\* C18: after every failed attempt that is not the last one, whatever the
\* kind of failure, the call sleeps BaseDelay * 2^attempt seconds before the
\* next request (1 s, then 2 s); it never sleeps after the last attempt.
C18_BackoffBetweenAttempts ==
  /\ [][ \A t \in Threads :
           Responds(t) /\ scr'[t].pc # "fetched" =>
             /\ scr'[t].pc = "sleep"
             /\ scr'[t].wait = BaseDelay * (2 ^ scr[t].attempt)
       ]_vars
  /\ [](\A t \in Threads :
          scr[t].pc = "sleep" => scr[t].requests < MaxRetries)

\* C19: a 200 with an empty array ends the call at once: it returns None after
\* that single attempt, with no sleep and no further request.
C19_EmptyNotRetried ==
  [][ \A t \in Threads :
        Responds(t) /\ scr'[t].last = "empty" =>
          /\ scr'[t].pc = "fetched"
          /\ scr'[t].data = "None"
    ]_vars

\* C20: the fetch call never ends with an exception: when every attempt
\* ended in a timeout or a connection error it returns None.
C20_FetchNeverRaises ==
  \A t \in Threads :
    scr[t].pc = "fetched" =>
      /\ scr[t].data # "raised"
      /\ (scr[t].last \in {"timeout", "connection_error"} =>
            scr[t].data = "None")

(* ----------------------- claims on the parser -------------------------- *)
\* detail.colors as the payload carries it: Absent when the payload is an
\* object whose detail, or whose detail.colors, is missing
ColorsIn(data) ==
  IF data.d.detail = Absent THEN Absent ELSE data.d.detail.d.colors

\* the payload is an object whose detail is missing or an object
WellFormedHead(data) ==
  /\ HasGet(data)
  /\ data.d.detail = Absent \/ HasGet(data.d.detail)

FirstColor(data) == data.d.detail.d.colors.l[1]

EntriesOf(x) == IF x.t = "list" THEN x.l ELSE <<>>

Snapshot == prs.pc = "returned" /\ prs.ret.t = "ok"

\* C22: every snapshot the parser returns has at least one size entry, also
\* when the first color entry has an empty or missing sizes list.
C22_SnapshotHasSizes == Snapshot => prs.ret.sizes # <<>>

\* C23: for every size entry in_stock is true exactly when the availability
\* is in_stock, low_on_stock or back_soon, false for every other value and
\* for a missing field, and the availability is handed through unchanged as
\* the size's stock_status.
C23_AvailabilityMapping ==
  Snapshot =>
    LET entries == EntriesOf(FirstColor(prs.data).d.sizes)
    IN  /\ Len(prs.ret.sizes) = Len(entries)
        /\ \A k \in 1..Len(entries) :
             LET a == entries[k].d.availability
             IN  /\ prs.ret.sizes[k].in_stock
                      = (a \in {JStr("in_stock"), JStr("low_on_stock"),
                                JStr("back_soon")})
                 /\ a # Absent => prs.ret.sizes[k].stock_status = a

C23_Witness ==
  /\ Snapshot
  /\ Len(prs.ret.sizes) = 2
  /\ prs.ret.sizes[1].stock_status = JStr("back_soon")
  /\ prs.ret.sizes[1].in_stock
  /\ prs.ret.sizes[2].stock_status = JStr("sold_out")
  /\ ~prs.ret.sizes[2].in_stock

MinorOf(entry, field) ==
  IF entry.d[field] = Absent THEN 0 ELSE entry.d[field].n

LabelOf(entry) ==
  IF entry.d.discountLabel = Absent THEN "" ELSE entry.d.discountLabel.s

\* the position of the last entry that carries a value, 0 when none does
LastAt(ks) == IF ks = {} THEN 0 ELSE CHOOSE k \in ks : \A m \in ks : m <= k

\* amount is n minor units divided by 100
IsAmount(amount, n) ==
  /\ amount.cents \in 0..99
  /\ amount.whole * 100 + amount.cents = n

\* C25: the snapshot's price, old_price and discount are those of the last
\* size entry, in payload order, whose price is non-zero, whose oldPrice is
\* non-zero, whose discountLabel is non-empty (0, 0 and "" when no entry has
\* one), and every amount is the minor-unit integer divided by 100.
C25_LastNonZeroPrices ==
  Snapshot =>
    LET entries == EntriesOf(FirstColor(prs.data).d.sizes)
        n == Len(entries)
        kp == LastAt({k \in 1..n : MinorOf(entries[k], "price") # 0})
        ko == LastAt({k \in 1..n : MinorOf(entries[k], "oldPrice") # 0})
        kd == LastAt({k \in 1..n : LabelOf(entries[k]) # ""})
    IN  /\ IsAmount(prs.ret.price,
                    IF kp = 0 THEN 0 ELSE MinorOf(entries[kp], "price"))
        /\ IsAmount(prs.ret.old_price,
                    IF ko = 0 THEN 0 ELSE MinorOf(entries[ko], "oldPrice"))
        /\ prs.ret.discount
             = JStr(IF kd = 0 THEN "" ELSE LabelOf(entries[kd]))
        /\ \A k \in 1..n :
             /\ IsAmount(prs.ret.sizes[k].price, MinorOf(entries[k], "price"))
             /\ IsAmount(prs.ret.sizes[k].old_price,
                         MinorOf(entries[k], "oldPrice"))

\* two sizes: 19.99 / 29.99 / -33%, then 0 / 0 / "": the snapshot keeps the
\* first entry's values
C25_Witness ==
  /\ Snapshot
  /\ LET entries == EntriesOf(FirstColor(prs.data).d.sizes)
     IN  /\ Len(entries) = 2
         /\ MinorOf(entries[1], "price") = 1999
         /\ MinorOf(entries[1], "oldPrice") = 2999
         /\ LabelOf(entries[1]) = "-33%"
         /\ entries[2].d.price = JNum(0)
         /\ entries[2].d.oldPrice = JNum(0)
         /\ entries[2].d.discountLabel = JStr("")
  /\ prs.ret.price = [whole |-> 19, cents |-> 99]
  /\ prs.ret.old_price = [whole |-> 29, cents |-> 99]
  /\ prs.ret.discount = JStr("-33%")

\* the delivery URL a media entry carries ("" when it has none)
UrlOf(media) ==
  IF media.d.extraInfo = Absent THEN JStr("")
  ELSE IF media.d.extraInfo.d.deliveryUrl = Absent THEN JStr("")
  ELSE media.d.extraInfo.d.deliveryUrl

\* every media entry is an object whose extraInfo is missing or an object
MediaWellFormed(entries) ==
  \A k \in 1..Len(entries) :
    /\ HasGet(entries[k])
    /\ entries[k].d.extraInfo = Absent \/ HasGet(entries[k].d.extraInfo)

FirstFullAt(entries) ==
  LET ks == {k \in 1..Len(entries) : entries[k].d.kind = JStr("full")}
  IN  IF ks = {} THEN 0 ELSE CHOOSE k \in ks : \A m \in ks : k <= m

\* C26 as stated: the image URL is the delivery URL of the first media entry
\* tagged full; without such an entry the first entry's delivery URL; without
\* media the empty string.
C26_FirstFullOrFirst ==
  (Snapshot /\ MediaWellFormed(EntriesOf(FirstColor(prs.data).d.xmedia))) =>
    LET entries == EntriesOf(FirstColor(prs.data).d.xmedia)
        kf == FirstFullAt(entries)
    IN  prs.ret.image_url
          = IF entries = <<>> THEN JStr("")
            ELSE IF kf # 0 THEN UrlOf(entries[kf]) ELSE UrlOf(entries[1])

\* C26, amended: the image URL is the delivery URL of the first media entry
\* tagged full when that URL is not empty; otherwise (no entry tagged full,
\* or the first one tagged full has no delivery URL) it is the first media
\* entry's delivery URL.  A color whose xmedia is missing or [] gives "" and
\* a snapshot; a null xmedia gives the same in core/scraper.py and
\* zara_scraper.py and None in scraper/zara.py.
C26_FullWithUrlOrFirst ==
  /\ (Snapshot /\ MediaWellFormed(EntriesOf(FirstColor(prs.data).d.xmedia))) =>
       LET entries == EntriesOf(FirstColor(prs.data).d.xmedia)
           kf == FirstFullAt(entries)
       IN  prs.ret.image_url
             = IF entries = <<>> THEN JStr("")
               ELSE IF kf # 0 /\ UrlOf(entries[kf]) # JStr("")
                      THEN UrlOf(entries[kf])
                      ELSE UrlOf(entries[1])
  /\ \A x \in {Absent, JList(<<>>), JNull} :
       (prs.pc = "returned"
         /\ prs.data = WithColor(ColorJson(JNum(7), x, OneSize))) =>
         IF x = JNull /\ prs.impl = "zara"
           THEN prs.ret = ParsedNone
           ELSE prs.ret.t = "ok" /\ prs.ret.image_url = JStr("")

\* a thumb with a URL, then a full entry without one: the first entry's URL
C26_Witness ==
  /\ Snapshot
  /\ FirstColor(prs.data).d.xmedia
       = JList(<<MediaJson(JStr("thumb"), JDict([deliveryUrl |-> JStr("u1")])),
                 MediaJson(JStr("full"), JDict([deliveryUrl |-> JStr("")]))>>)
  /\ prs.ret.image_url = JStr("u1")

DigitsAt(url, a, b) == a <= b /\ \A m \in a..b : url[m] \in DigitChars

\* the places where -p<digits>.html stands in the URL, as <<start, end>>
ProductSegments(url) ==
  {se \in (1..Len(url)) \X (1..Len(url)) :
     /\ url[se[1]] = "-p"
     /\ url[se[2]] = ".html"
     /\ DigitsAt(url, se[1] + 1, se[2] - 1)}

\* the places where v1=<digits> stands, the digits taken to their end
ColorParams(url) ==
  {se \in (1..Len(url)) \X (1..Len(url)) :
     /\ url[se[1]] = "v1="
     /\ DigitsAt(url, se[1] + 1, se[2])
     /\ se[2] = Len(url) \/ url[se[2] + 1] \notin DigitChars}

Leftmost(S) == CHOOSE se \in S : \A o \in S : se[1] <= o[1]

\* C27: the extraction returns as product id the digits of the (leftmost)
\* -p<digits>.html segment and as color id the digits of the (leftmost)
\* v1=<digits> parameter, each whether or not the other is there and None
\* when its pattern is absent; the result is the same for every scraper
\* class and region, and the call changes nothing but its own result.
C27_ExtractIds ==
  /\ [](ids.pc = "returned" =>
          /\ ids.product_id
               = IF ProductSegments(ids.url) = {} THEN NoId
                 ELSE LET se == Leftmost(ProductSegments(ids.url))
                      IN  Id(SubSeq(ids.url, se[1] + 1, se[2] - 1))
          /\ ids.color_id
               = IF ColorParams(ids.url) = {} THEN NoId
                 ELSE LET se == Leftmost(ColorParams(ids.url))
                      IN  Id(SubSeq(ids.url, se[1] + 1, se[2])))
  /\ [][ids' # ids =>
          /\ ids'.url = ids.url
          /\ ids'.impl = ids.impl
          /\ UNCHANGED <<upVars, cacheVars, lock, th, scr, prs, ntf, appVars>>]_vars

\* a URL with the parameter and no product segment: only the color id
C27_Witness ==
  /\ ids.pc = "returned"
  /\ ids.url = <<"?", "v1=", "1", "2">>
  /\ ids.product_id = NoId
  /\ ids.color_id = Id(<<"1", "2">>)

\* both ids, the parameter standing before the segment
C27_WitnessBoth ==
  /\ ids.pc = "returned"
  /\ ids.url = <<"v1=", "2", "-p", "1", ".html">>
  /\ ids.product_id = Id(<<"1">>)
  /\ ids.color_id = Id(<<"2">>)

(* --------------- claims on get_stock_status without an id -------------- *)
\* C28: when the URL carries no color id and the page fetch fails or matches
\* nothing, the call returns None, sends no product-API request and makes no
\* cache call; the page is fetched only when the URL carries no color id.
C28_NoIdNoRequest ==
  /\ [](\A t \in Threads :
          (scr[t].pc = "done" /\ scr[t].color_id = NoId)
            => scr[t].ret = "None" /\ scr[t].requests = 0)
  /\ [][\A t \in Threads :
          /\ (scr'[t].requests > scr[t].requests
               \/ (th[t] = NoCall /\ th'[t] # NoCall))
               => scr[t].color_id # NoId
          /\ scr'[t].pages > scr[t].pages => ColorParams(scr[t].url) = {}
          /\ (scr[t].pc = "page" /\ scr'[t].pc # "page"
               /\ scr'[t].color_id = NoId)
               => scr'[t].pc = "done" /\ scr'[t].ret = "None"]_vars

\* a caching scraper whose earlier call stored a payload under the id found
\* on the page; this call's page fetch gave no id and the call ended with
\* None, no request sent
C28_Witness ==
  /\ scr["t1"].pc = "done"
  /\ scr["t1"].url = UrlWithoutColor
  /\ scr["t1"].use_cache
  /\ scr["t1"].color_id = NoId
  /\ scr["t1"].pages = 1
  /\ scr["t1"].requests = 0
  /\ scr["t1"].ret = "None"
  /\ DOMAIN cache # {}

\* a URL with the color id: the call reached the API without a page fetch
C28_WitnessNoPage ==
  /\ scr["t1"].pc = "done"
  /\ scr["t1"].url = UrlWithColor
  /\ scr["t1"].pages = 0
  /\ scr["t1"].requests = 1
  /\ scr["t1"].ret # "None"

(* ---------------------- claims on send_notification -------------------- *)
\* Telegram is enabled: the configuration switches it on and holds a token
\* and a chat id
TelegramEnabled == ntf.telegram_enabled /\ ntf.credentials

\* C30: send_notification never raises; after a failed macOS notification it
\* still tries Telegram when Telegram is enabled and asked for, and it
\* returns True exactly when the macOS notification or the Telegram message
\* was delivered.
C30_NotifyNeverRaises ==
  /\ ntf.pc # "raised"
  /\ ntf.pc = "returned" =>
       /\ ntf.ret = (ntf.mac = "sent" \/ ntf.tg = "200")
       /\ (ntf.use_telegram /\ TelegramEnabled) => ntf.tg # "not_tried"
       /\ ~(ntf.use_telegram /\ TelegramEnabled) => ntf.tg = "not_tried"

\* osascript failed, Telegram delivered: True
C30_Witness ==
  /\ ntf.pc = "returned"
  /\ ntf.mac = "osascript_failed"
  /\ ntf.tg = "200"
  /\ ntf.ret

\* macOS timed out and Telegram is not enabled: False
C30_WitnessFalse ==
  /\ ntf.pc = "returned"
  /\ ntf.mac = "timeout"
  /\ ~TelegramEnabled
  /\ ntf.use_telegram
  /\ ~ntf.ret

(* --------------------- the first color entry only ---------------------- *)
\* what a call of the parser hands back for a payload
ParseOutcome(impl, data) ==
  IF parse_body(impl, data) = Raised THEN ParsedNone ELSE parse_body(impl, data)

\* two payloads with colors agree on id, name and detail.colors[0]
SameFirstColor(a, b) ==
  /\ a.d.id = b.d.id
  /\ a.d.name = b.d.name
  /\ a.d.detail.d.colors.l[1] = b.d.detail.d.colors.l[1]

\* C31: the snapshot is built from the first color entry only: a payload that
\* agrees with the parsed one on id, name and detail.colors[0] gives the same
\* result, whatever the other color entries of the two payloads hold.
C31_FirstColorOnly ==
  (prs.pc = "returned" /\ prs.data \in ColorPayloads) =>
    \A other \in ColorPayloads :
      SameFirstColor(prs.data, other)
        => ParseOutcome(prs.impl, other) = prs.ret

\* a snapshot of the first entry, the payload carrying two more entries, the
\* last of them a well-formed color of another variant
C31_Witness ==
  /\ Snapshot
  /\ prs.data \in ColorPayloads
  /\ Len(prs.data.d.detail.d.colors.l) = 3
  /\ prs.data.d.detail.d.colors.l[2] = JNull
  /\ HasGet(prs.data.d.detail.d.colors.l[3])
  /\ prs.data.d.detail.d.colors.l[3].d.productId = JNum(8)
  /\ prs.ret.product_id = <<"7">>
  /\ prs.ret.sizes[1].size = JStr("M")

(* ------------------- claims on the polling cycle, 2 -------------------- *)
\* the processing of product p raises: in the scraper call or in the size
\* loop
RaisedIn(p) == site[p].kind = "raises" \/ MidRaised(p)

\* the entries of the snapshot of p whose label had a row with another
\* in_stock when the call began
ChangesOf(p) ==
  Cardinality({a \in 1..Len(site[p].sizes) :
     LET k == get_by_product_and_size(prior.stock[p], site[p].sizes[a].size)
     IN  /\ k # 0
         /\ prior.stock[p][k].in_stock # NewStock(site[p].sizes[a])})

RECURSIVE SumChanges(_)
SumChanges(S) ==
  IF S = {} THEN 0
  ELSE LET p == CHOOSE q \in S : TRUE
       IN  ChangesOf(p) + SumChanges(S \ {p})

\* C32: a product whose processing raises part-way through is skipped: the
\* rows and fields it had when the call began are what the call commits, no
\* alert of the returned triple names it, and changedCount counts the
\* entries of the completed products only.
C32_RaisedIsSkipped ==
  /\ \A p \in Products : RaisedIn(p) =>
       /\ db.stock[p] = prior.stock[p]
       /\ db.prod[p] = prior.prod[p]
  /\ (Returned /\ Len(rets) = 1) =>
       /\ \A a \in 1..Len(LastRet.alerts) :
            ~RaisedIn(LastRet.alerts[a].product_id)
       /\ (\A p \in Products : NoRepeatedLabel(site[p].sizes)) =>
            LastRet.changes = SumChanges(Completed)

\* C33: after a call that updated a product, the stored in_stock of every
\* size of its snapshot equals the snapshot's; in the following call, which
\* sees the same snapshot, no pass over that product counts a change or
\* appends an alert, and no alert of its triple names the product.
C33_AlertOncePerTransition ==
  /\ [](Returned =>
          \A p \in Completed : \A a \in 1..Len(site[p].sizes) :
            LET k == get_by_product_and_size(db.stock[p],
                                             site[p].sizes[a].size)
            IN  /\ k # 0
                /\ db.stock[p][k].in_stock = NewStock(site[p].sizes[a]))
  /\ [][ (SizePass /\ cycle = 2 /\ i \in Completed) =>
           /\ changes' = changes
           /\ size_alerts' = size_alerts ]_vars
  /\ []((pc = "idle" /\ Len(rets) = 2) =>
          \A a \in 1..Len(rets[2].alerts) :
            rets[2].alerts[a].product_id \notin Completed)

RECURSIVE SumEntries(_)
SumEntries(S) ==
  IF S = {} THEN 0
  ELSE LET p == CHOOSE q \in S : TRUE
       IN  Len(site[p].sizes) + SumEntries(S \ {p})

\* C40: the triple of every returned call has 0 <= updatedCount <= number of
\* active products, at most changedCount alerts, a changedCount of at most
\* the number of size entries in the snapshots of the products counted as
\* updated, and is (0, 0, <<>>) when there is no active product.
C40_TripleBounds ==
  Returned =>
    /\ LastRet.updated \in 0..Cardinality(Products)
    /\ Len(LastRet.alerts) <= LastRet.changes
    /\ LastRet.changes <= SumEntries(Completed)
    /\ Products = {} =>
         LastRet = [updated |-> 0, changes |-> 0, alerts |-> <<>>]

(* ------------------- claims on the cached scraper call ----------------- *)
\* the class whose cache key k is: the key of core names the language too
ImplOfKey(k) == IF Len(k) = 4 THEN "core" ELSE "zara"

\* C35: every payload held in the response cache parses to a snapshot, and a
\* call answered from the cache returns a snapshot.
C35_CacheHoldsParsable ==
  /\ \A k \in DOMAIN cache :
       parse_product_data(ImplOfKey(k), cache[k].value) # ParsedNone
  /\ (gs.pc = "done" /\ gs.hit) => gs.ret # ParsedNone

(* ----------------------- claims on the menu bar app -------------------- *)
\* the number of notifications sent for product p
SentFor(p) == mb.sent[p]

\* C34: while the manual and the background check run side by side, the one
\* transition of the desired size of a product from out of stock to in stock
\* gives at most one notification in total.
C34_OneAlertPerTransition ==
  \A p \in MbProducts : SentFor(p) <= (IF mb.avail[p] THEN 1 ELSE 0)

\* the product the checker is at
Current(t) == mb.t[t].list[mb.t[t].k]

\* the step is the query of part B by checker t, for a product that is gone
QueryOfGone(t) ==
  /\ mb.t[t].pc = "query"
  /\ mb'.t[t] # mb.t[t]
  /\ Current(t) \notin mb.present

\* C36: when the product was deleted after the listing and before part B,
\* the query step writes no stock row, no price-history record and no product
\* field, appends no alert and goes on with the next product (or, after the
\* last one, with the notifications); no alert of the call names the product.
C36_DeletedIsSkipped ==
  /\ [][ \A t \in Checkers : QueryOfGone(t) =>
           /\ mb'.stock = mb.stock
           /\ mb'.hist = mb.hist
           /\ mb'.fields = mb.fields
           /\ mb'.sent = mb.sent
           /\ mb'.present = mb.present
           /\ mb'.t[t].alerts = mb.t[t].alerts
           /\ mb'.t[t].list = mb.t[t].list
           /\ mb'.t[t].k = mb.t[t].k + 1
           /\ mb'.t[t].pc = IF mb.t[t].k < Len(mb.t[t].list) THEN "scrape"
                                                            ELSE "notify"
     ]_vars
  /\ [](\A t \in Checkers : \A p \in mb.t[t].gone :
          \A a \in 1..Len(mb.t[t].alerts) : mb.t[t].alerts[a] # p)

\* product 1 was deleted while the manual check scraped it; the check has
\* gone on to product 2 and is about to write its rows
C36_Witness ==
  /\ mb.t["manual"].gone = {1}
  /\ mb.t["manual"].list = <<1, 2>>
  /\ mb.t["manual"].k = 2
  /\ mb.t["manual"].pc = "commit"
  /\ mb.t["manual"].alerts = <<2>>
  /\ mb.hist[1] = <<>>
  /\ mb.stock[1] = -1
  /\ mb.t["background"].pc = "idle"
  /\ mb.checks = 1

\* C38: no two consecutive price-history records of a product carry the same
\* price, whatever the interleaving of the two checkers.
C38_NoRepeatedPrice ==
  \A p \in MbProducts : \A n \in 1..(Len(mb.hist[p]) - 1) :
    mb.hist[p][n] # mb.hist[p][n + 1]

(* -------------------------- claims on add_product ---------------------- *)
AddReturned == ap.pc = "returned"

UrlTracked ==
  \E n \in 1..Len(ap.before.prod) : ap.before.prod[n].url = ap.url

\* the desired size is none of the snapshot's sizes, letter case ignored
NoSuchSize ==
  /\ ap.desired_size # ""
  /\ \A n \in 1..Len(ap.site.sizes) :
       ~SameIgnoringCase(ap.site.sizes[n].size, ap.desired_size)

\* C37: a call returns failure and leaves the tables as they were when the
\* URL is tracked already (without a scrape), when the scrape raises or gives
\* no snapshot, and when the desired size is none of the snapshot's sizes
\* ignoring case; the tables change in no call that fails; a call that
\* succeeds has stored one product with the desired size in upper case and
\* one stock row per snapshot entry, in the snapshot's order.
C37_AddProduct ==
  /\ (ap.pc # "idle" /\ ~(AddReturned /\ ap.ret.success)) =>
       ap.store = ap.before
  /\ AddReturned =>
       /\ UrlTracked => ~ap.ret.success /\ ap.scrapes = 0
       /\ ap.site.kind # "ok" => ~ap.ret.success
       /\ (ap.site.kind = "ok" /\ NoSuchSize) => ~ap.ret.success
       /\ ap.ret.success =>
            /\ Len(ap.store.prod) = Len(ap.before.prod) + 1
            /\ ap.store.prod[Len(ap.store.prod)].desired_size
                 \in {"M", "S", "L", NoSize}
            /\ SameIgnoringCase(ap.store.prod[Len(ap.store.prod)].desired_size,
                                ap.desired_size)
                 \/ (ap.desired_size = ""
                     /\ ap.store.prod[Len(ap.store.prod)].desired_size = NoSize)
            /\ Len(ap.store.stock) = Len(ap.site.sizes)
            /\ \A n \in 1..Len(ap.site.sizes) :
                 /\ ap.store.stock[n].size = ap.site.sizes[n].size
                 /\ (ap.store.stock[n].in_stock = 1) = ap.site.sizes[n].in_stock

\* a call with desired size "m" on a snapshot with the sizes M and S has
\* stored the product with desired size "M" and two rows
C37_Witness ==
  /\ AddReturned
  /\ ap.ret.success
  /\ ap.desired_size = "m"
  /\ Len(ap.store.stock) = 2
  /\ ap.store.stock[1].size = "M"
  /\ ap.store.stock[2].size = "S"
  /\ ap.store.prod[1].desired_size = "M"

\* a call whose desired size "L" is none of the snapshot's sizes has failed
C37_WitnessNoSize ==
  /\ AddReturned
  /\ ~ap.ret.success
  /\ ap.site.kind = "ok"
  /\ ap.desired_size = "L"
  /\ ap.site.sizes # <<>>
  /\ ap.ret.message = "size not found"
  /\ ap.store = ap.before

\* a call for a tracked URL has failed without a scrape
C37_WitnessTracked ==
  /\ AddReturned
  /\ UrlTracked
  /\ ap.scrapes = 0
  /\ ap.site.kind = "ok"
  /\ ~ap.ret.success

\* C39: add_product never sends a write through a second session while its
\* own session holds flushed, uncommitted writes.
C39_NoWriteThroughSecondSession ==
  ~(ap.pc = "hist_insert" /\ ap.flushed)

====
